---- MODULE Spec2Model ----
(***************************************************************************)
(* Model of the cron engine of nerg4l/goperiment (package cron):           *)
(* Parse, Cron.ScheduledFor, Cron.After, Cron.Before and their helpers,    *)
(* the field scanner cronScanner.ScanList, and Crontab with its Runner.    *)
(* Spec is the cron engine, SpecScan the field scanner, SpecRunner the     *)
(* crontab and its runner (FairSpecRunner with the scheduler's fairness).  *)
(* SpecSchedule is NewSchedule of package schedule with its goroutine      *)
(* (FairSpecSchedule with fairness), SpecMinute the timing of Run's loop   *)
(* and its timers, SpecDo the tick loop with the crontab mutex (FairSpecDo *)
(* with fairness).                                                         *)
(*                                                                         *)
(* Representation choices                                                  *)
(*  - a uint64 bit mask is the set of its set bit positions, a subset of   *)
(*    0..63 (a shift by 64 or more yields no bit, as in Go);               *)
(*  - a string is a sequence of one-character strings; the rune read at    *)
(*    end of input is NUL;                                                 *)
(*  - a time.Time is a record [sec, nsec]: seconds since 1970-01-01 00:00  *)
(*    and nanoseconds within the second, in a location without daylight    *)
(*    saving (UTC);                                                        *)
(*  - a Go error is "nil", "EOF" (the value io.EOF itself) or "error" (any *)
(*    other error value, wrapped io.EOF included);                         *)
(*  - a run-time panic is an outcome of its own.                           *)
(***************************************************************************)
EXTENDS Integers, Sequences, FiniteSets, TLC

VARIABLES text, cron, u, op, out, scan

\* Crontab and Runner: see the section on the runner below
VARIABLES entries, inShutdown, cancel, mu, run, shut, inflight, executed,
          ticks, crashed, sched

runVars ==
  <<entries, inShutdown, cancel, mu, run, shut, inflight, executed, ticks,
    crashed, sched>>

\* the periodic schedule (package schedule) and the minute timer of Run
VARIABLES now, call, sch, firstTimer, ticker, gor, ctxDone, triggers,
          consumer, runLoop, tickTimes

timeVars ==
  <<now, call, sch, firstTimer, ticker, gor, ctxDone, triggers, consumer,
    runLoop, tickTimes>>

vars == <<text, cron, u, op, out, scan, runVars, timeVars>>

(***************************************************************************)
(* Program constants                                                       *)
(***************************************************************************)
firstMinute == 0
lastMinute == 59
firstHour == 0
lastHour == 23
firstDay == 1
lastDay == 31
firstMonth == 1
lastMonth == 12
firstWeekday == 0
lastWeekday == 7

dayStar == "dayStar"
weekdayStar == "weekdayStar"

shortDayNames ==
  << <<"S","u","n">>, <<"M","o","n">>, <<"T","u","e">>, <<"W","e","d">>,
     <<"T","h","u">>, <<"F","r","i">>, <<"S","a","t">> >>

shortMonthNames ==
  << <<"J","a","n">>, <<"F","e","b">>, <<"M","a","r">>, <<"A","p","r">>,
     <<"M","a","y">>, <<"J","u","n">>, <<"J","u","l">>, <<"A","u","g">>,
     <<"S","e","p">>, <<"O","c","t">>, <<"N","o","v">>, <<"D","e","c">> >>

(***************************************************************************)
(* Bounds of the model                                                     *)
(***************************************************************************)
\* iterations of the day/month/weekday loop of After and Before that the
\* model follows before it reports the search as still running
MaxLoop == 16

\* minutes around the queried instant that the no-skip property inspects
MaxProbe == 120

(***************************************************************************)
(* Runes                                                                   *)
(***************************************************************************)
NUL == ""

Digits == <<"0","1","2","3","4","5","6","7","8","9">>

UpperLetters ==
  <<"A","B","C","D","E","F","G","H","I","J","K","L","M",
    "N","O","P","Q","R","S","T","U","V","W","X","Y","Z">>

LowerLetters ==
  <<"a","b","c","d","e","f","g","h","i","j","k","l","m",
    "n","o","p","q","r","s","t","u","v","w","x","y","z">>

Range(s) == { s[i] : i \in 1..Len(s) }

IsDigit(ch) == ch \in Range(Digits)

IsLetter(ch) == ch \in Range(UpperLetters) \cup Range(LowerLetters)

IsSpace(ch) == ch \in {" ", "\t", "\n"}

DigitValue(ch) == (CHOOSE i \in 1..10 : Digits[i] = ch) - 1

\* simple case folding of one rune
Fold(ch) ==
  IF ch \in Range(UpperLetters)
    THEN LowerLetters[CHOOSE i \in 1..26 : UpperLetters[i] = ch]
    ELSE ch

EqualFold(a, b) ==
  /\ Len(a) = Len(b)
  /\ \A i \in 1..Len(a) : Fold(a[i]) = Fold(b[i])

RECURSIVE Atoi(_)
Atoi(ds) ==
  IF ds = <<>> THEN 0
  ELSE 10 * Atoi(SubSeq(ds, 1, Len(ds) - 1)) + DigitValue(ds[Len(ds)])

(***************************************************************************)
(* Bit masks                                                               *)
(***************************************************************************)
Min(S) == CHOOSE x \in S : \A y \in S : x <= y
Max(S) == CHOOSE x \in S : \A y \in S : y <= x

\* bits.TrailingZeros64
TrailingZeros64(m) == IF m = {} THEN 64 ELSE Min(m)

\* bits.LeadingZeros64
LeadingZeros64(m) == IF m = {} THEN 64 ELSE 63 - Max(m)

\* marks &^ (1<<c - 1)
ClearBelow(m, c) == { i \in m : i >= c }

\* marks & (1<<c - 1)
KeepBelow(m, c) == { i \in m : i < c }

(***************************************************************************)
(* Calendar arithmetic of the host (package time, proleptic Gregorian)     *)
(***************************************************************************)
\* days from 1970-01-01 to year y, month m (1..12), day d; d may lie outside
\* the month, the result is then that many days further
DaysFromCivil(y, m, d) ==
  LET yy == IF m <= 2 THEN y - 1 ELSE y
      era == yy \div 400
      yoe == yy - era * 400
      mp == IF m > 2 THEN m - 3 ELSE m + 9
      doy == (153 * mp + 2) \div 5 + d - 1
      doe == yoe * 365 + yoe \div 4 - yoe \div 100 + doy
  IN era * 146097 + doe - 719468

CivilFromDays(z) ==
  LET zz == z + 719468
      era == zz \div 146097
      doe == zz - era * 146097
      yoe == (doe - doe \div 1460 + doe \div 36524 - doe \div 146096) \div 365
      doy == doe - (365 * yoe + yoe \div 4 - yoe \div 100)
      mp == (5 * doy + 2) \div 153
      d == doy - (153 * mp + 2) \div 5 + 1
      m == IF mp < 10 THEN mp + 3 ELSE mp - 9
      y == yoe + era * 400 + (IF m <= 2 THEN 1 ELSE 0)
  IN [year |-> y, month |-> m, day |-> d]

\* time.Date: month and day outside their range are normalised
Date(y, m, d, h, mi, s, ns) ==
  LET ny == y + ((m - 1) \div 12)
      nm == ((m - 1) % 12) + 1
  IN [sec |-> DaysFromCivil(ny, nm, d) * 86400 + h * 3600 + mi * 60 + s,
      nsec |-> ns]

DayNumber(t) == t.sec \div 86400

Year(t) == CivilFromDays(DayNumber(t)).year
Month(t) == CivilFromDays(DayNumber(t)).month
Day(t) == CivilFromDays(DayNumber(t)).day
Hour(t) == (t.sec % 86400) \div 3600
Minute(t) == (t.sec % 3600) \div 60
Second(t) == t.sec % 60
Nanosecond(t) == t.nsec

\* time.Weekday: Sunday = 0; 1970-01-01 was a Thursday
Weekday(t) == (DayNumber(t) + 4) % 7

\* Time.Add of a whole number of seconds
AddSeconds(t, n) == [t EXCEPT !.sec = @ + n]

\* Time.AddDate
AddDate(t, years, months, days) ==
  LET c == CivilFromDays(DayNumber(t))
  IN Date(c.year + years, c.month + months, c.day + days,
          Hour(t), Minute(t), Second(t), t.nsec)

\* Time.Before / Time.After
TimeLess(a, b) == a.sec < b.sec \/ (a.sec = b.sec /\ a.nsec < b.nsec)

(***************************************************************************)
(* cronRange                                                               *)
(***************************************************************************)
newCronRangeBetween(low, high) ==
  [from |-> low, to |-> high, step |-> 1, offset |-> low]

\* cronRange.Bits: panics on a zero step, and on the negative shift count
\* of its first iteration when from < offset
\* Bits without the step: every value from f to t
BitsEveryValue(cr) ==
  LET f == cr.from - cr.offset
      t == cr.to - cr.offset
  IN IF cr.step = 0 \/ (f <= t /\ f < 0) THEN [panic |-> TRUE, b |-> {}]
     ELSE [panic |-> FALSE, b |-> { i \in f..t : i < 64 }]

Bits(cr) ==
  LET f == cr.from - cr.offset
      t == cr.to - cr.offset
      s == cr.step
  IN IF s = 0 THEN [panic |-> TRUE, b |-> {}]
     ELSE IF f <= t /\ f < 0 THEN [panic |-> TRUE, b |-> {}]
     ELSE [panic |-> FALSE,
           b |-> { i \in f..t : (i - f) % s = 0 /\ i < 64 }]

(***************************************************************************)
(* cronScanner over a strings.Reader                                       *)
(***************************************************************************)
\* strings.NewReader(s) followed by the first ReadRune of Parse
newScanner(s) == [s |-> s, pos |-> 2, prev |-> 1, ch |-> s[1]]

readRune(cs) ==
  IF cs.pos <= Len(cs.s)
    THEN [cs |-> [cs EXCEPT !.ch = cs.s[cs.pos], !.prev = cs.pos,
                            !.pos = cs.pos + 1],
          err |-> "nil"]
    ELSE [cs |-> [cs EXCEPT !.ch = NUL, !.prev = 0], err |-> "EOF"]

unreadRune(cs) ==
  IF cs.prev > 0 THEN [cs EXCEPT !.pos = cs.prev, !.prev = 0] ELSE cs

\* the digit loop of scanNumber
RECURSIVE scanDigits(_, _)
scanDigitsRead(rd, sb) ==
  IF rd.err = "EOF"
    THEN [cs |-> rd.cs, sb |-> sb, err |-> "EOF"]
    ELSE scanDigits(rd.cs, sb)

scanDigits(cs, sb) ==
  IF IsDigit(cs.ch)
    THEN scanDigitsRead(readRune(cs), Append(sb, cs.ch))
    ELSE [cs |-> cs, sb |-> sb, err |-> "nil"]

\* the letter loop of scanNumber
RECURSIVE scanLetters(_, _)
scanLettersRead(rd, sb) ==
  IF rd.err = "EOF"
    THEN [cs |-> rd.cs, sb |-> sb, err |-> "EOF"]
    ELSE scanLetters(rd.cs, sb)

scanLetters(cs, sb) ==
  IF IsLetter(cs.ch)
    THEN scanLettersRead(readRune(cs), Append(sb, cs.ch))
    ELSE [cs |-> cs, sb |-> sb, err |-> "nil"]

\* scanNumber after its letter loop; l is the outcome of the loop
scanName(l, low, names, terms) ==
  LET hits == { i \in 1..Len(names) : EqualFold(names[i], l.sb) }
  IN IF /\ Len(names) # 0
        /\ l.sb # <<>>
        /\ (l.cs.ch \in terms \/ l.err = "EOF")
        /\ hits # {}
       THEN [cs |-> l.cs, num |-> (Min(hits) - 1) + low, err |-> "nil"]
       ELSE [cs |-> unreadRune(l.cs), num |-> 0, err |-> "EOF"]

\* scanNumber after its digit loop; d is the outcome of the loop
scanDigitsEnd(d, low, names, terms) ==
  IF d.sb # <<>>
    THEN IF d.cs.ch \notin terms /\ d.err # "EOF"
           THEN [cs |-> unreadRune(d.cs), num |-> 0, err |-> "error"]
           ELSE [cs |-> d.cs, num |-> Atoi(d.sb), err |-> "nil"]
    ELSE scanName(IF Len(names) # 0 THEN scanLetters(d.cs, <<>>)
                  ELSE [cs |-> d.cs, sb |-> <<>>, err |-> "nil"],
                  low, names, terms)

\* names is a sequence of names (<<>> for nil), terms a set of runes
scanNumber(cs, low, names, terms) ==
  scanDigitsEnd(scanDigits(cs, <<>>), low, names, terms)

\* the three bound checks that end scanRange
rangeChecks(cs, r, low, high) ==
  IF r.to < low THEN [cs |-> cs, r |-> r, err |-> "error"]
  ELSE IF r.to > high THEN [cs |-> cs, r |-> r, err |-> "error"]
  ELSE IF r.step > high THEN [cs |-> cs, r |-> r, err |-> "error"]
  ELSE [cs |-> cs, r |-> r, err |-> "nil"]

\* scanRange after the step size was scanned; st is scanNumber's outcome
scanStepNumber(st, r, low, high) ==
  IF st.err # "nil"
    THEN [cs |-> st.cs, r |-> [r EXCEPT !.step = st.num], err |-> st.err]
    ELSE IF st.num = 0
      THEN [cs |-> st.cs, r |-> [r EXCEPT !.step = st.num], err |-> "error"]
      ELSE rangeChecks(st.cs, [r EXCEPT !.step = st.num], low, high)

\* scanRange after the slash was eaten; rd is readRune's outcome
scanSlash(rd, r, low, high) ==
  IF rd.err # "nil"
    THEN [cs |-> rd.cs, r |-> r, err |-> rd.err]
    ELSE scanStepNumber(scanNumber(rd.cs, 0, <<>>, {",", " ", "\t", "\n"}),
                        r, low, high)

\* scanRange from "check for step size" to its end
scanStep(cs, r, low, high) ==
  IF cs.ch = "/"
    THEN scanSlash(readRune(cs), r, low, high)
    ELSE rangeChecks(cs, r, low, high)

\* scanRange after the number following the dash; m is scanNumber's outcome
scanTo(m, r, low, high) ==
  IF m.err # "nil"
    THEN [cs |-> m.cs, r |-> [r EXCEPT !.to = m.num], err |-> m.err]
    ELSE IF r.from > m.num
      THEN [cs |-> m.cs, r |-> [r EXCEPT !.to = m.num], err |-> "error"]
      ELSE scanStep(m.cs, [r EXCEPT !.to = m.num], low, high)

\* scanRange after the dash was eaten; rd is readRune's outcome
scanDash(rd, r, low, high, names) ==
  IF rd.err # "nil"
    THEN [cs |-> rd.cs, r |-> r, err |-> "error"]
    ELSE scanTo(scanNumber(rd.cs, low, names, {"/", ",", " ", "\t", "\n"}),
                r, low, high)

\* scanRange after its first number; n is scanNumber's outcome
scanFrom(n, r, low, high, names) ==
  IF n.err # "nil"
    THEN [cs |-> n.cs, r |-> [r EXCEPT !.from = n.num], err |-> n.err]
    ELSE IF n.cs.ch # "-"
      THEN scanStep(n.cs, [r EXCEPT !.from = n.num, !.to = n.num], low, high)
      ELSE scanDash(readRune(n.cs), [r EXCEPT !.from = n.num], low, high,
                    names)

\* scanRange after the star was read; rd is readRune's outcome
scanStar(rd, r, low, high) ==
  IF rd.err # "nil"
    THEN [cs |-> rd.cs, r |-> r, err |-> rd.err]
    ELSE scanStep(rd.cs, r, low, high)

scanRange(cs, low, high, names) ==
  IF cs.ch = "*"
    THEN scanStar(readRune(cs),
                  [from |-> low, to |-> high, step |-> 1, offset |-> low],
                  low, high)
    ELSE scanFrom(scanNumber(cs, low, names, {",", "-", " ", "\t", "\n"}),
                  [from |-> 0, to |-> 0, step |-> 1, offset |-> low],
                  low, high, names)

\* ScanList: "skip to some blanks"
RECURSIVE skipToBlank(_)
skipToBlankRead(rd) == IF rd.err # "nil" THEN rd ELSE skipToBlank(rd.cs)

skipToBlank(cs) ==
  IF ~IsSpace(cs.ch)
    THEN skipToBlankRead(readRune(cs))
    ELSE [cs |-> cs, err |-> "nil"]

\* ScanList: "then skip over the blanks"
RECURSIVE skipBlanks(_)
skipBlanksRead(rd) == IF rd.err # "nil" THEN rd ELSE skipBlanks(rd.cs)

skipBlanks(cs) ==
  IF IsSpace(cs.ch)
    THEN skipBlanksRead(readRune(cs))
    ELSE [cs |-> cs, err |-> "nil"]

\* ScanList after the blanks were skipped; s2 is the outcome of the skip
scanListEnd(s2, b) ==
  [cs |-> s2.cs, b |-> b, err |-> s2.err, panic |-> FALSE]

\* ScanList after it skipped to the blanks; s1 is the outcome of the skip
scanListBlanks(s1, b) ==
  IF s1.err # "nil"
    THEN [cs |-> s1.cs, b |-> b, err |-> s1.err, panic |-> FALSE]
    ELSE scanListEnd(skipBlanks(s1.cs), b)

RECURSIVE scanListFrom(_, _, _, _, _)

\* ScanList after the comma was eaten; rd is readRune's outcome
scanListComma(rd, b, low, high, names) ==
  IF rd.err # "nil"
    THEN [cs |-> rd.cs, b |-> b, err |-> rd.err, panic |-> FALSE]
    ELSE scanListFrom(rd.cs, b, low, high, names)

\* one iteration of ScanList's loop after scanRange; sr is scanRange's
\* outcome and bits the outcome of r.Bits()
scanListRange(sr, bits, b, low, high, names) ==
  IF sr.err = "EOF"
    THEN [cs |-> sr.cs, b |-> b \cup bits.b, err |-> "EOF",
          panic |-> bits.panic]
    ELSE IF sr.err # "nil"
      THEN [cs |-> sr.cs, b |-> b, err |-> sr.err, panic |-> FALSE]
      ELSE IF bits.panic
        THEN [cs |-> sr.cs, b |-> b, err |-> "nil", panic |-> TRUE]
        ELSE IF sr.cs.ch = ","
          THEN scanListComma(readRune(sr.cs), b \cup bits.b, low, high, names)
          ELSE scanListBlanks(skipToBlank(sr.cs), b \cup bits.b)

scanListBits(sr, b, low, high, names) ==
  scanListRange(sr, Bits(sr.r), b, low, high, names)

scanListFrom(cs, b, low, high, names) ==
  scanListBits(scanRange(cs, low, high, names), b, low, high, names)

ScanList(cs, low, high, names) == scanListFrom(cs, {}, low, high, names)

(***************************************************************************)
(* Parse                                                                   *)
(***************************************************************************)
NoCron ==
  [minutes |-> {}, hours |-> {}, days |-> {}, months |-> {}, weekdays |-> {},
   flags |-> {}]

Yearly == <<"@","y","e","a","r","l","y">>
Annually == <<"@","a","n","n","u","a","l","l","y">>
Monthly == <<"@","m","o","n","t","h","l","y">>
Weekly == <<"@","w","e","e","k","l","y">>
Daily == <<"@","d","a","i","l","y">>
Midnight == <<"@","m","i","d","n","i","g","h","t">>
Hourly == <<"@","h","o","u","r","l","y">>

\* the switch on the predefined scheduling definitions
Predefined(s) ==
  LET all(low, high) == Bits(newCronRangeBetween(low, high)).b
  IN IF s = Yearly \/ s = Annually
       THEN [kind |-> "ok",
             c |-> [minutes |-> {}, hours |-> {}, days |-> {}, months |-> {},
                    weekdays |-> all(firstWeekday, lastWeekday),
                    flags |-> {weekdayStar}]]
     ELSE IF s = Monthly
       THEN [kind |-> "ok",
             c |-> [minutes |-> {}, hours |-> {}, days |-> {},
                    months |-> all(firstMonth, lastMonth),
                    weekdays |-> all(firstWeekday, lastWeekday),
                    flags |-> {weekdayStar}]]
     ELSE IF s = Weekly
       THEN [kind |-> "ok",
             c |-> [minutes |-> {}, hours |-> {},
                    days |-> all(firstDay, lastDay),
                    months |-> all(firstMonth, lastMonth),
                    weekdays |-> {},
                    flags |-> {dayStar}]]
     ELSE IF s = Daily \/ s = Midnight
       THEN [kind |-> "ok",
             c |-> [minutes |-> {}, hours |-> {},
                    days |-> all(firstDay, lastDay),
                    months |-> all(firstMonth, lastMonth),
                    weekdays |-> all(firstWeekday, lastWeekday),
                    flags |-> {dayStar, weekdayStar}]]
     ELSE IF s = Hourly
       THEN [kind |-> "ok",
             c |-> [minutes |-> {},
                    hours |-> all(firstHour, lastHour),
                    days |-> all(firstDay, lastDay),
                    months |-> all(firstMonth, lastMonth),
                    weekdays |-> all(firstWeekday, lastWeekday),
                    flags |-> {dayStar, weekdayStar}]]
     ELSE [kind |-> "error", c |-> NoCron]

Failed == [kind |-> "error", c |-> NoCron]

Panicked == [kind |-> "panic", c |-> NoCron]

\* Parse after the weekday list; wd is ScanList's outcome, io.EOF is accepted
parseEnd(wd, c) ==
  IF wd.panic THEN Panicked
  ELSE IF wd.err # "nil" /\ wd.err # "EOF" THEN Failed
  ELSE [kind |-> "ok", c |-> [c EXCEPT !.weekdays = wd.b]]

\* Parse after the month list; mo is ScanList's outcome
parseWeekdays(mo, c) ==
  IF mo.panic THEN Panicked
  ELSE IF mo.err # "nil" THEN Failed
  ELSE parseEnd(ScanList(mo.cs, firstWeekday, lastWeekday, shortDayNames),
                [c EXCEPT !.months = mo.b,
                          !.flags = IF mo.cs.ch = "*"
                                      THEN @ \cup {weekdayStar} ELSE @])

\* Parse after the day list; da is ScanList's outcome
parseMonths(da, c) ==
  IF da.panic THEN Panicked
  ELSE IF da.err # "nil" THEN Failed
  ELSE parseWeekdays(ScanList(da.cs, firstMonth, lastMonth, shortMonthNames),
                     [c EXCEPT !.days = da.b])

\* Parse after the hour list; ho is ScanList's outcome
parseDays(ho, c) ==
  IF ho.panic THEN Panicked
  ELSE IF ho.err # "nil" THEN Failed
  ELSE parseMonths(ScanList(ho.cs, firstDay, lastDay, <<>>),
                   [c EXCEPT !.hours = ho.b,
                             !.flags = IF ho.cs.ch = "*"
                                         THEN @ \cup {dayStar} ELSE @])

\* Parse after the minute list; mi is ScanList's outcome
parseHours(mi, c) ==
  IF mi.panic THEN Panicked
  ELSE IF mi.err # "nil" THEN Failed
  ELSE parseDays(ScanList(mi.cs, firstHour, lastHour, <<>>),
                 [c EXCEPT !.minutes = mi.b])

\* the five ScanList calls of Parse
Fields(s) ==
  parseHours(ScanList(newScanner(s), firstMinute, lastMinute, <<>>), NoCron)

\* if c.weekdays&0b10000001 > 0 { c.weekdays = c.weekdays | 0b10000001 }
\* Parse without lines 197-199: the weekday mask is left as scanned
NormalizeSundaySkipped(c) == c

NormalizeSunday(c) ==
  IF c.weekdays \cap {0, 7} # {}
    THEN [c EXCEPT !.weekdays = @ \cup {0, 7}]
    ELSE c

\* the end of Parse; r is the outcome of either branch
parseNormalize(r) ==
  IF r.kind = "ok" THEN [kind |-> "ok", c |-> NormalizeSunday(r.c)] ELSE r

\* result: kind "ok" with the cron c, kind "error" (err # nil), or kind
\* "panic"
Parse(s) ==
  IF Len(s) = 0 THEN [kind |-> "error", c |-> NoCron]
  ELSE parseNormalize(IF s[1] = "@" THEN Predefined(s) ELSE Fields(s))

(***************************************************************************)
(* Cron                                                                    *)
(***************************************************************************)
hasFlag(c, cf) == cf \in c.flags

ScheduledFor(c, t) ==
  LET h == Hour(t)
      m == Minute(t)
  IN IF (m - firstMinute) \notin c.minutes THEN FALSE
     ELSE IF (h - firstHour) \notin c.hours THEN FALSE
     ELSE IF (Day(t) - firstMonth) \notin c.months THEN FALSE
     ELSE IF /\ ~hasFlag(c, dayStar)
             /\ ~hasFlag(c, weekdayStar)
             /\ (Day(t) - firstDay) \notin c.days
             /\ (Weekday(t) - firstWeekday) \notin c.weekdays
       THEN FALSE
     ELSE TRUE

diffAfter(current, first, last, marks) ==
  LET c == current - first
      d == TrailingZeros64(ClearBelow(marks, c))
  IN IF c \in marks THEN [diff |-> 0, overflow |-> FALSE]
     ELSE IF d >= (last - first)
       THEN [diff |-> -c + TrailingZeros64(marks), overflow |-> TRUE]
       ELSE [diff |-> d - c, overflow |-> FALSE]

diffBefore(current, first, last, marks) ==
  LET c == current - first
      d == 64 - LeadingZeros64(KeepBelow(marks, c)) - 1
  IN IF c \in marks THEN [diff |-> 0, underflow |-> FALSE]
     ELSE IF d < 0
       THEN [diff |-> 64 - LeadingZeros64(marks), underflow |-> TRUE]
       ELSE [diff |-> d - c, underflow |-> FALSE]

\* t.Add(time.Hour) on overflow, then t.Add(diff * time.Minute)
addMinutes(t, d) ==
  AddSeconds(t, (IF d.overflow THEN 3600 ELSE 0) + d.diff * 60)

\* t.AddDate(0, 0, 1) on overflow, then t.Add(diff * time.Hour)
addHours(t, d) ==
  AddSeconds(IF d.overflow THEN AddDate(t, 0, 0, 1) ELSE t, d.diff * 3600)

\* t.AddDate(0, 1, 0) on overflow, then t.AddDate(0, 0, diff)
addDays(t, d) ==
  AddDate(IF d.overflow THEN AddDate(t, 0, 1, 0) ELSE t, 0, 0, d.diff)

\* t.AddDate(1, 0, 0) on overflow, then t.AddDate(0, diff, 0)
addMonths(t, d) ==
  AddDate(IF d.overflow THEN AddDate(t, 1, 0, 0) ELSE t, 0, d.diff, 0)

afterMinute(c, t) ==
  addMinutes(t, diffAfter(Minute(t), firstMinute, lastMinute, c.minutes))

afterHour(c, t) ==
  addHours(t, diffAfter(Hour(t), firstHour, lastHour, c.hours))

afterDay(c, t) ==
  addDays(t, diffAfter(Day(t), firstDay, lastDay, c.days))

afterMonth(c, t) ==
  addMonths(t, diffAfter(Month(t), firstMonth, lastMonth, c.months))

\* the for loop of After; n is the number of iterations still followed
RECURSIVE afterLoop(_, _, _)

\* the weekday test that ends an iteration of the loop
afterWeekday(c, t, n) ==
  IF (Weekday(t) - firstWeekday) \in c.weekdays
    THEN [done |-> TRUE, t |-> t]
    ELSE afterLoop(c, AddDate(t, 0, 0, 1), n - 1)

afterLoop(c, t, n) ==
  IF n = 0 THEN [done |-> FALSE, t |-> t]
  ELSE afterWeekday(c, afterMonth(c, afterDay(c, t)), n)

\* the start of After: u rounded up to the next whole minute
afterStart(uu) ==
  IF Second(uu) > 0 \/ Nanosecond(uu) > 0
    THEN [sec |-> uu.sec - Second(uu) + 60, nsec |-> 0]
    ELSE AddSeconds(uu, 60)

\* done = FALSE: the loop is still running after MaxLoop iterations
After(c, uu) ==
  afterLoop(c, afterHour(c, afterMinute(c, afterStart(uu))), MaxLoop)

\* the same four steps with the underflow of diffBefore
subMinutes(t, d) ==
  AddSeconds(t, (IF d.underflow THEN -3600 ELSE 0) + d.diff * 60)

subHours(t, d) ==
  AddSeconds(IF d.underflow THEN AddDate(t, 0, 0, -1) ELSE t, d.diff * 3600)

subDays(t, d) ==
  AddDate(IF d.underflow THEN AddDate(t, 0, -1, 0) ELSE t, 0, 0, d.diff)

subMonths(t, d) ==
  AddDate(IF d.underflow THEN AddDate(t, -1, 0, 0) ELSE t, 0, d.diff, 0)

beforeMinute(c, t) ==
  subMinutes(t, diffBefore(Minute(t), firstMinute, lastMinute, c.minutes))

beforeHour(c, t) ==
  subHours(t, diffBefore(Hour(t), firstHour, lastHour, c.hours))

beforeDay(c, t) ==
  subDays(t, diffBefore(Day(t), firstDay, lastDay, c.days))

beforeMonth(c, t) ==
  subMonths(t, diffBefore(Month(t), firstMonth, lastMonth, c.months))

\* the for loop of Before
RECURSIVE beforeLoop(_, _, _)

beforeWeekday(c, t, n) ==
  IF (Weekday(t) - firstWeekday) \in c.weekdays
    THEN [done |-> TRUE, t |-> t]
    ELSE beforeLoop(c, AddDate(t, 0, 0, -1), n - 1)

beforeLoop(c, t, n) ==
  IF n = 0 THEN [done |-> FALSE, t |-> t]
  ELSE beforeWeekday(c, beforeMonth(c, beforeDay(c, t)), n)

\* the start of Before: u truncated to its minute, or one minute earlier
beforeStart(uu) ==
  IF Second(uu) > 0 \/ Nanosecond(uu) > 0
    THEN [sec |-> uu.sec - Second(uu), nsec |-> 0]
    ELSE AddSeconds(uu, -60)

Before(c, uu) ==
  beforeLoop(c, beforeHour(c, beforeMinute(c, beforeStart(uu))), MaxLoop)

(***************************************************************************)
(* Inputs of the model: the expressions handed to Parse and the instants   *)
(* handed to ScheduledFor, After and Before                                *)
(***************************************************************************)
EveryMinute == <<"*"," ","*"," ","*"," ","*"," ","*">>  \* * * * * *
EveryQuarter == <<"*","/","1","5"," ","*"," ","*"," ","*"," ","*">>  \* */15 * * * *
HalfHours == <<"0",",","3","0"," ","*"," ","*"," ","*"," ","*">>  \* 0,30 * * * *
\* 0,30 0,12 * * *
HalfDays ==
  <<"0",",","3","0"," ","0",",","1","2"," ","*"," ","*"," ","*">>
\* 0,30 0,12 1,15 * *
TwoDays ==
  <<"0",",","3","0"," ","0",",","1","2"," ","1",",","1","5"," ","*"," ","*">>
\* 0,30 0,12 1,15 JAN,JUN *
TwoMonths ==
  <<"0",",","3","0"," ","0",",","1","2"," ","1",",","1","5"," ","J","A","N",",","J","U","N"," ","*">>
\* 0,30 0,12 1,15 JAN,JUN MON
TwoMonthsMon ==
  <<"0",",","3","0"," ","0",",","1","2"," ","1",",","1","5"," ","J","A","N",",","J","U","N"," ","M","O","N">>
\* 0,30 0,12 23 JAN,JUN MON
Day23OrMon ==
  <<"0",",","3","0"," ","0",",","1","2"," ","2","3"," ","J","A","N",",","J","U","N"," ","M","O","N">>
\* 0,30 0,12 21 JAN,JUN MON
Day21OrMon ==
  <<"0",",","3","0"," ","0",",","1","2"," ","2","1"," ","J","A","N",",","J","U","N"," ","M","O","N">>
OnMonday == <<"*"," ","*"," ","*"," ","*"," ","1">>  \* * * * * 1
OnDayOne == <<"*"," ","*"," ","1"," ","*"," ","*">>  \* * * 1 * *
DayOneOrWed == <<"*"," ","*"," ","1"," ","*"," ","3">>  \* * * 1 * 3
Minute59 == <<"5","9"," ","*"," ","*"," ","*"," ","*">>  \* 59 * * * *
Minute30 == <<"3","0"," ","*"," ","*"," ","*"," ","*">>  \* 30 * * * *
Hour23 == <<"*"," ","2","3"," ","*"," ","*"," ","*">>  \* * 23 * * *
Hour12 == <<"*"," ","1","2"," ","*"," ","*"," ","*">>  \* * 12 * * *
Day31 == <<"*"," ","*"," ","3","1"," ","*"," ","*">>  \* * * 31 * *
Day15 == <<"*"," ","*"," ","1","5"," ","*"," ","*">>  \* * * 15 * *
InDecember == <<"*"," ","*"," ","*"," ","1","2"," ","*">>  \* * * * 12 *
InJanuary == <<"*"," ","*"," ","*"," ","1"," ","*">>  \* * * * 1 *
InJune == <<"*"," ","*"," ","*"," ","J","U","N"," ","*">>  \* * * * JUN *
BadDay == <<"*"," ","*"," ","x"," ","*"," ","*">>  \* * * x * *
BadMonth == <<"*"," ","*"," ","*"," ","F","O","O"," ","*">>  \* * * * FOO *
BadMinute == <<"6","0"," ","*"," ","*"," ","*"," ","*">>  \* 60 * * * *
BadRange == <<"2","-","0"," ","*"," ","*"," ","*"," ","*">>  \* 2-0 * * * *
YearlyFields == <<"0"," ","0"," ","1"," ","1"," ","*">>  \* 0 0 1 1 *
MonthlyFields == <<"0"," ","0"," ","1"," ","*"," ","*">>  \* 0 0 1 * *
WeeklyFields == <<"0"," ","0"," ","*"," ","*"," ","0">>  \* 0 0 * * 0
DailyFields == <<"0"," ","0"," ","*"," ","*"," ","*">>  \* 0 0 * * *
HourlyFields == <<"0"," ","*"," ","*"," ","*"," ","*">>  \* 0 * * * *
Unknown == <<"@","a","n","y">>  \* @any
DayZero == <<"*"," ","*"," ","0"," ","*"," ","*">>  \* * * 0 * *
DayZeroRange == <<"*"," ","*"," ","0","-","5"," ","*"," ","*">>  \* * * 0-5 * *
MonthZeroRange == <<"*"," ","*"," ","*"," ","0","-","3"," ","*">>  \* * * * 0-3 *
HourTooBig == <<"*"," ","2","4"," ","*"," ","*"," ","*">>  \* * 24 * * *
WeekdayEight == <<"*"," ","*"," ","*"," ","*"," ","8">>  \* * * * * 8
BadWeekday == <<"*"," ","*"," ","*"," ","*"," ","x">>  \* * * * * x
BadMinuteName == <<"x"," ","*"," ","*"," ","*"," ","*">>  \* x * * * *
LongMonth == <<"*"," ","*"," ","*"," ","J","A","N","U","A","R","Y"," ","*">>  \* * * * JANUARY *
OnSunday == <<"*"," ","*"," ","*"," ","*"," ","S","U","N">>  \* * * * * SUN
OnSundayLower == <<"*"," ","*"," ","*"," ","*"," ","s","u","n">>  \* * * * * sun
OnSeven == <<"*"," ","*"," ","*"," ","*"," ","7">>  \* * * * * 7
LeapDay == <<"*"," ","*"," ","2","9"," ","2"," ","*">>  \* * * 29 2 *
NoRangeEnd == <<"2","-"," ","*"," ","*"," ","*"," ","*">>  \* 2- * * * *
NoRangeStart == <<"-","2"," ","*"," ","*"," ","*"," ","*">>  \* -2 * * * *
WeekdayNoEnd == <<"*"," ","*"," ","*"," ","*"," ","1","-">>  \* * * * * 1-
WeekdayNoStart == <<"*"," ","*"," ","*"," ","*"," ","-","2">>  \* * * * * -2
WeekdayBadEnd == <<"*"," ","*"," ","*"," ","*"," ","1","-","x">>  \* * * * * 1-x
StepZero == <<"*","/","0"," ","*"," ","*"," ","*"," ","*">>  \* */0 * * * *
StepTooBig == <<"*","/","6","0"," ","*"," ","*"," ","*"," ","*">>  \* */60 * * * *
StepNoNumber == <<"*","/","x"," ","*"," ","*"," ","*"," ","*">>  \* */x * * * *
SingleWithStep == <<"*"," ","2","/","1"," ","*"," ","*"," ","*">>  \* * 2/1 * * *
DoubleDash == <<"*"," ","2","-","3","-","4"," ","*"," ","*"," ","*">>  \* * 2-3-4 * * *
StarLetter == <<"*","x"," ","*"," ","*"," ","*"," ","*">>  \* *x * * * *
NumberLetter == <<"5","x"," ","*"," ","*"," ","*"," ","*">>  \* 5x * * * *
StarListDay == <<"*"," ","*"," ","*",",","5"," ","*"," ","*">>  \* * * *,5 * *
StarListWeekday == <<"*"," ","*"," ","*"," ","*"," ","*",",","5">>  \* * * * * *,5
DayStep == <<"*"," ","*"," ","*","/","2"," ","*"," ","*">>  \* * * */2 * *
WeekdayStep == <<"*"," ","*"," ","*"," ","*"," ","*","/","2">>  \* * * * * */2
ThreeFields == <<"*"," ","*"," ","*">>  \* * * *
FourFields == <<"*"," ","*"," ","*"," ","*">>  \* * * * *
SixFields == <<"*"," ","*"," ","*"," ","*"," ","*"," ","*">>  \* * * * * * *

Shorthands == {Yearly, Annually, Monthly, Weekly, Daily, Midnight, Hourly}

Exprs ==
  Shorthands \cup
  {<<>>, EveryMinute, EveryQuarter, HalfHours, HalfDays, TwoDays,
   TwoMonths, TwoMonthsMon, Day23OrMon, Day21OrMon, OnMonday,
   OnDayOne, DayOneOrWed, Minute59, Minute30, Hour23,
   Hour12, Day31, Day15, InDecember, InJanuary,
   InJune, BadDay, BadMonth, BadMinute, BadRange,
   YearlyFields, MonthlyFields, WeeklyFields, DailyFields, HourlyFields,
   Unknown, DayZero, DayZeroRange, MonthZeroRange, HourTooBig,
   WeekdayEight, BadWeekday, BadMinuteName, LongMonth, OnSunday,
   OnSundayLower, OnSeven, LeapDay,
   NoRangeEnd, NoRangeStart, WeekdayNoEnd, WeekdayNoStart,
   WeekdayBadEnd, StepZero, StepTooBig, StepNoNumber,
   SingleWithStep, DoubleDash, StarLetter, NumberLetter,
   StarListDay, StarListWeekday, DayStep, WeekdayStep,
   ThreeFields, FourFields, SixFields}

MonthDays ==
  {<<1, 1>>, <<1, 2>>, <<1, 7>>, <<1, 15>>, <<1, 22>>, <<2, 28>>, <<3, 15>>,
   <<6, 15>>, <<6, 23>>, <<12, 31>>}

Clocks ==
  {<<0, 0>>, <<0, 1>>, <<5, 30>>, <<12, 30>>, <<22, 58>>, <<23, 59>>}

SubMinutes == {<<0, 0>>, <<0, 500000000>>, <<59, 999999999>>}

Instants ==
  { Date(1990, md[1], md[2], hm[1], hm[2], sn[1], sn[2]) :
      md \in MonthDays, hm \in Clocks, sn \in SubMinutes }

(***************************************************************************)
(* State machine: a caller parses an expression and queries the cron at an *)
(* instant                                                                 *)
(*   text  the expression given to Parse                                   *)
(*   u     the instant given to ScheduledFor, After and Before             *)
(*   cron  the outcome of Parse ("none" before the call)                   *)
(*   op    the last operation called                                       *)
(*   out   its result: b for ScheduledFor, t and done for After and Before *)
(***************************************************************************)

(***************************************************************************)
(* Crontab and Runner                                                      *)
(*   entries     Crontab.entries of the default crontab                    *)
(*   inShutdown  Runner.inShutdown                                         *)
(*   cancel      Runner.cancel: 0 is nil, i the cancel function of the     *)
(*               context made by call i of Run                             *)
(*   mu          Runner.mu: "free" or held by the caller of Shutdown       *)
(*   run         the calls of Run: position pc, returned error ret, done   *)
(*               (the call's context is cancelled), late (Close or         *)
(*               Shutdown had returned when the call was made)             *)
(*   shut        the call of Close or Shutdown: position pc, kind,         *)
(*               returned error ret, expired (the caller's context is      *)
(*               done), waiter (the goroutine of lines 614-617 runs),      *)
(*               done (the channel done is closed)                         *)
(*   inflight    the goroutines started by Do that are in Exec             *)
(*   executed    the goroutines whose Exec has returned                    *)
(*   ticks       the ticks received so far                                 *)
(*   crashed     an unrecovered panic in a goroutine has ended the process *)
(*   sched       the outcome of the last call of Schedule                  *)
(***************************************************************************)
\* calls of Run
MaxRuns == 1
\* ticks of time.After received by the runner
MaxTicks == 1
\* entries registered in the crontab
MaxEntries == 2

Runs == 1..MaxRuns

\* the instant of tick k
TickTime(k) == Date(1990, 1, 1, 0, k, 0, 0)

\* executors: nil, one whose Exec returns, one whose Exec panics
Executors == {"nil", "returns", "panics"}

\* expressions handed to Schedule: one scheduled for every tick, one
\* scheduled for no tick of the run, one that Parse refuses
ScheduleExprs == {EveryMinute, Minute30, BadMinute}

ErrCrontabClosed == "ErrCrontabClosed"

\* Runner.wg: no statement of the package adds to it
wg == 0

NoRun == [pc |-> "idle", ret |-> "none", done |-> FALSE, late |-> FALSE]

NoShut ==
  [pc |-> "idle", kind |-> "none", ret |-> "none", expired |-> FALSE,
   waiter |-> FALSE, done |-> FALSE]

RunnerIdle ==
  /\ entries = <<>>
  /\ inShutdown = FALSE
  /\ cancel = 0
  /\ mu = "free"
  /\ run = [i \in Runs |-> NoRun]
  /\ shut = NoShut
  /\ inflight = {}
  /\ executed = {}
  /\ ticks = 0
  /\ crashed = FALSE
  /\ sched = "none"

(***************************************************************************)
(* Package schedule: NewSchedule(ctx, p, o).  Instants and durations are    *)
(* whole numbers of one clock unit counted from the zero time; now is the   *)
(* clock read by time.Now().                                                *)
(***************************************************************************)

\* the largest period and the largest offset (in either direction) tried
MaxPeriod == 3
MaxOffset == 3
\* the clock stops here
MaxNow == 8

Periods == (0 - 1)..MaxPeriod
Offsets == (0 - MaxOffset)..MaxOffset

\* time.Time.Truncate(d): the instant rounded down to a multiple of d since
\* the zero time; a d that is not positive leaves the instant as it is
Truncate(t, d) == IF d <= 0 THEN t ELSE t - (t % d)

\* only a negative period is refused
NewSchedulePanicsNegative(p) == p < 0

\* lines 30-32
NewSchedulePanics(p) == p <= 0

\* lines 37-40: the position of the first execution
firstT(t, p, o) ==
  IF Truncate(t, p) + o < t THEN Truncate(t, p) + o + p ELSE Truncate(t, p) + o

\* time.Timer: state "none" (not made), "running", "fired" or "stopped";
\* C is its channel, which holds at most one instant
NoTimer == [state |-> "none", when |-> 0, C |-> <<>>]

\* time.NewTimer(d) made at instant t
NewTimer(t, d) == [state |-> "running", when |-> t + d, C |-> <<>>]

\* Timer.Stop: true when the call stops a running timer
Stop(tm) == tm.state = "running"

\* line 43: &time.Ticker{C: nil}, whose channel is never ready
NilTicker == [state |-> "nil", next |-> 0, d |-> 0, C |-> <<>>]

\* time.NewTicker(d) made at instant t; it panics when d is not positive
NewTickerPanics(d) == d <= 0

NewTicker(t, d) == [state |-> "running", next |-> t + d, d |-> d, C |-> <<>>]

\* line 35: Schedule{C: ch}; the literal names neither p nor o, which keep
\* the zero value of time.Duration
ScheduleLiteral(p, o) == [p |-> 0, o |-> 0]

\* lines 69-76
Period(s) == s.p

Offset(s) == s.o

NoCall == [pc |-> "idle", p |-> 0, o |-> 0, at |-> 0]

\* the goroutine of lines 44-64
NoGoroutine == [pc |-> "none", v |-> 0]

\* Runner.Run, lines 584-591, with the clock in seconds: time.Minute
timeMinute == 60
\* a call of Do takes at most this many seconds
MaxDispatch == 1
\* minutes of the run that are followed
MaxMinutes == 3

\* timers that time.After makes while the cancelled loop is followed
MaxTimers == 3

NoLoop == [pc |-> "idle", after |-> 0, since |-> 0, timers |-> <<>>]

\* the timers of a sequence of deadlines that have not fired at an instant
liveTimers(tms, inst) ==
  LET pending(d) == d > inst
  IN SelectSeq(tms, pending)

TimeIdle ==
  /\ now = 0
  /\ call = NoCall
  /\ sch = ScheduleLiteral(0, 0)
  /\ firstTimer = NoTimer
  /\ ticker = NilTicker
  /\ gor = NoGoroutine
  /\ ctxDone = FALSE
  /\ triggers = <<>>
  /\ consumer = "receiving"
  /\ runLoop = NoLoop
  /\ tickTimes = <<>>

NoTime == [sec |-> 0, nsec |-> 0]

NoOut == [b |-> FALSE, t |-> NoTime, done |-> FALSE]

\* no field scanned
NoScan ==
  [field |-> 1, ranges |-> <<>>, named |-> FALSE, last |-> FALSE,
   called |-> FALSE, b |-> {}, err |-> "nil", panic |-> FALSE]

Init ==
  /\ text \in Exprs
  /\ u \in Instants
  /\ cron = [kind |-> "none", c |-> NoCron]
  /\ op = "none"
  /\ out = NoOut
  /\ scan = NoScan
  /\ RunnerIdle
  /\ TimeIdle

ParseOp ==
  /\ cron.kind = "none"
  /\ cron' = Parse(text)
  /\ op' = "Parse"
  /\ UNCHANGED <<text, u, out, scan, runVars, timeVars>>

ScheduledForOp ==
  /\ cron.kind = "ok"
  /\ out' = [NoOut EXCEPT !.b = ScheduledFor(cron.c, u)]
  /\ op' = "ScheduledFor"
  /\ UNCHANGED <<text, u, cron, scan, runVars, timeVars>>

AfterOp ==
  /\ cron.kind = "ok"
  /\ LET r == After(cron.c, u)
     IN out' = [NoOut EXCEPT !.t = r.t, !.done = r.done]
  /\ op' = "After"
  /\ UNCHANGED <<text, u, cron, scan, runVars, timeVars>>

BeforeOp ==
  /\ cron.kind = "ok"
  /\ LET r == Before(cron.c, u)
     IN out' = [NoOut EXCEPT !.t = r.t, !.done = r.done]
  /\ op' = "Before"
  /\ UNCHANGED <<text, u, cron, scan, runVars, timeVars>>

Next == ParseOp \/ ScheduledForOp \/ AfterOp \/ BeforeOp

Spec == Init /\ [][Next]_vars

(***************************************************************************)
(* A caller of ScanList: one field text, written from a list of ranges,    *)
(* is scanned with the bounds and the name table of one of the five fields *)
(*   scan.field   the field, 1 (minute) .. 5 (weekday)                     *)
(*   scan.ranges  the ranges the field text is written from                *)
(*   scan.named   values are written by name where the table has one       *)
(*   scan.last    the field ends the input (else ` *` follows)             *)
(*   scan.b, scan.err, scan.panic  the outcome of ScanList                 *)
(***************************************************************************)
\* the arguments Parse gives to its five ScanList calls
FieldArgs ==
  << [low |-> firstMinute, high |-> lastMinute, names |-> <<>>],
     [low |-> firstHour, high |-> lastHour, names |-> <<>>],
     [low |-> firstDay, high |-> lastDay, names |-> <<>>],
     [low |-> firstMonth, high |-> lastMonth, names |-> shortMonthNames],
     [low |-> firstWeekday, high |-> lastWeekday, names |-> shortDayNames] >>

\* longest list of ranges in a scanned field
MaxList == 2

DigitChars == <<"0", "1", "2", "3", "4", "5", "6", "7", "8", "9">>

\* the decimal text of n, 0 <= n <= 99
Itoa(n) ==
  IF n < 10 THEN <<DigitChars[n + 1]>>
  ELSE <<DigitChars[(n \div 10) + 1], DigitChars[(n % 10) + 1]>>

\* the text of value v of field fa: its name when asked for and the table
\* has one, its decimal text otherwise
ValueText(fa, v, named) ==
  IF named /\ v - fa.low + 1 <= Len(fa.names)
    THEN fa.names[v - fa.low + 1] ELSE Itoa(v)

\* the text of one range: `*`, `n` or `n-m`, then `/step` when a step is given
RangeText(fa, r, named) ==
  (IF r.star THEN <<"*">>
   ELSE IF r.single THEN ValueText(fa, r.from, named)
   ELSE ValueText(fa, r.from, named) \o <<"-">> \o ValueText(fa, r.to, named))
  \o (IF r.step = 0 THEN <<>> ELSE <<"/">> \o Itoa(r.step))

\* the ranges rs[i..] separated by commas
RECURSIVE ListText(_, _, _, _)
ListText(fa, rs, named, i) ==
  IF i = Len(rs) THEN RangeText(fa, rs[i], named)
  ELSE RangeText(fa, rs[i], named) \o <<",">> \o ListText(fa, rs, named, i + 1)

\* the text of a field: its ranges separated by commas, then ` *` (the next
\* field) unless the field ends the input
FieldText(fa, rs, named, last) ==
  ListText(fa, rs, named, 1) \o (IF last THEN <<>> ELSE <<" ", "*">>)

\* values of a field used in the ranges
FieldValues(fa) == {fa.low, fa.low + 1, fa.low + 3, fa.high}

\* step 0 stands for no `/step`
Steps == {0, 2, 3}

\* the valid ranges of a field over these values: `*` and `n-m` with or
\* without a step, `n` without
FieldRanges(fa) ==
  { [star |-> TRUE, single |-> FALSE, from |-> fa.low, to |-> fa.high,
     step |-> st] : st \in Steps }
  \cup { [star |-> FALSE, single |-> TRUE, from |-> v, to |-> v, step |-> 0] :
           v \in FieldValues(fa) }
  \cup { [star |-> FALSE, single |-> FALSE, from |-> p[1], to |-> p[2],
          step |-> st] :
           p \in { q \in FieldValues(fa) \X FieldValues(fa) : q[1] < q[2] },
           st \in Steps }

FieldLists(fa) ==
  UNION { [1..n -> FieldRanges(fa)] : n \in 1..MaxList }

InitScan ==
  /\ text = <<>>
  /\ u = NoTime
  /\ cron = [kind |-> "none", c |-> NoCron]
  /\ op = "none"
  /\ out = NoOut
  /\ \E f \in 1..5, last \in BOOLEAN :
       \E rs \in FieldLists(FieldArgs[f]),
          named \in (IF FieldArgs[f].names = <<>> THEN {FALSE} ELSE BOOLEAN) :
         scan = [NoScan EXCEPT !.field = f, !.ranges = rs,
                               !.named = named, !.last = last]
  /\ RunnerIdle
  /\ TimeIdle

scanOutcome(sc, r) ==
  [sc EXCEPT !.called = TRUE, !.b = r.b, !.err = r.err, !.panic = r.panic]

ScanListOp ==
  /\ ~scan.called
  /\ scan.ranges # <<>>
  /\ LET fa == FieldArgs[scan.field]
     IN scan' = scanOutcome(scan,
                  ScanList(newScanner(FieldText(fa, scan.ranges, scan.named,
                                                scan.last)),
                           fa.low, fa.high, fa.names))
  /\ UNCHANGED <<text, u, cron, op, out, runVars, timeVars>>

NextScan == ScanListOp

SpecScan == InitScan /\ [][NextScan]_vars

(***************************************************************************)
(* Crontab and Runner: callers register entries with Schedule, call Run,   *)
(* and call Close or Shutdown once; the goroutines started by Do run       *)
(* interleaved with them                                                   *)
(***************************************************************************)
InitRunner ==
  /\ text = <<>>
  /\ u = NoTime
  /\ cron = [kind |-> "none", c |-> NoCron]
  /\ op = "none"
  /\ out = NoOut
  /\ scan = NoScan
  /\ RunnerIdle
  /\ TimeIdle

\* atomicBool
isSet(b) == b

\* a store that is lost
setTrueLost(b) == b

setTrue(b) == TRUE

NewEntry(c, executor) == [cron |-> c, executor |-> executor]

\* Crontab.Schedule panics when the expression does not parse (or Parse
\* panics) and when the executor is nil; r is the outcome of Parse
schedulePanics(r, executor) == r.kind # "ok" \/ executor = "nil"

\* the new entry is put before the existing ones
scheduleEntriesFirst(es, r, executor) ==
  IF schedulePanics(r, executor) THEN es
  ELSE <<NewEntry(r.c, executor)>> \o es

scheduleEntries(es, r, executor) ==
  IF schedulePanics(r, executor) THEN es
  ELSE Append(es, NewEntry(r.c, executor))

\* line 642: the outcome of Parse for each expression handed to Schedule
Parsed == [s \in ScheduleExprs |-> Parse(s)]

ScheduleOp ==
  /\ ~crashed
  /\ Len(entries) < MaxEntries
  /\ \E s \in ScheduleExprs, executor \in Executors :
       /\ entries' = scheduleEntries(entries, Parsed[s], executor)
       /\ sched' = IF schedulePanics(Parsed[s], executor) THEN "panic" ELSE "ok"
  /\ UNCHANGED <<inShutdown, cancel, mu, run, shut, inflight, executed,
                 ticks, crashed>>
  /\ UNCHANGED <<text, u, cron, op, out, scan, timeVars>>

\* Run, lines 571-573
RunCall(i) ==
  /\ ~crashed
  /\ run[i].pc = "idle"
  /\ run' = [run EXCEPT ![i] =
       IF isSet(inShutdown)
         THEN [@ EXCEPT !.pc = "returned", !.ret = ErrCrontabClosed,
                        !.late = (shut.pc = "returned")]
         ELSE [@ EXCEPT !.pc = "lock", !.late = (shut.pc = "returned")]]
  /\ UNCHANGED <<entries, inShutdown, cancel, mu, shut, inflight, executed,
                 ticks, crashed, sched>>
  /\ UNCHANGED <<text, u, cron, op, out, scan, timeVars>>

\* Run, lines 575-582
RunLock(i) ==
  /\ ~crashed
  /\ run[i].pc = "lock"
  /\ mu = "free"
  /\ cancel' = i
  /\ run' = [run EXCEPT ![i].pc = "select"]
  /\ UNCHANGED <<entries, inShutdown, mu, shut, inflight, executed, ticks,
                 crashed, sched>>
  /\ UNCHANGED <<text, u, cron, op, out, scan, timeVars>>

\* every entry is dispatched, scheduled or not
DoEveryEntry(es, i, k) ==
  { [e |-> j, tick |-> k, by |-> i] : j \in 1..Len(es) }

\* Crontab.Do at tick k, called by call i of Run: one goroutine for every
\* entry; a goroutine whose entry is not scheduled for the tick ends at
\* line 667, the others call Exec
Do(es, i, k) ==
  { [e |-> j, tick |-> k, by |-> i] :
      j \in { n \in 1..Len(es) : ScheduledFor(es[n].cron, TickTime(k)) } }

\* Run, lines 588-589: the timer of this iteration fires; a cancelled
\* context is ready at once, so the timer made in the same iteration never
\* wins against it
RunTick(i) ==
  /\ ~crashed
  /\ run[i].pc = "select"
  /\ ~run[i].done
  /\ ticks < MaxTicks
  /\ ticks' = ticks + 1
  /\ inflight' = inflight \cup Do(entries, i, ticks + 1)
  /\ UNCHANGED <<entries, inShutdown, cancel, mu, run, shut, executed,
                 crashed, sched>>
  /\ UNCHANGED <<text, u, cron, op, out, scan, timeVars>>

\* Run, lines 586-587: the case of ctx.Done() is taken
RunDone(i) ==
  /\ ~crashed
  /\ run[i].pc = "select"
  /\ run[i].done
  /\ run' = [run EXCEPT ![i].pc = "break"]
  /\ UNCHANGED <<entries, inShutdown, cancel, mu, shut, inflight, executed,
                 ticks, crashed, sched>>
  /\ UNCHANGED <<text, u, cron, op, out, scan, timeVars>>

\* Run, line 587: break leaves the select statement, and the for statement
\* of line 584 goes on
RunBreak(i) ==
  /\ ~crashed
  /\ run[i].pc = "break"
  /\ run' = [run EXCEPT ![i].pc = "select"]
  /\ UNCHANGED <<entries, inShutdown, cancel, mu, shut, inflight, executed,
                 ticks, crashed, sched>>
  /\ UNCHANGED <<text, u, cron, op, out, scan, timeVars>>

\* Entry.Exec returns, and the goroutine ends
ExecReturn ==
  /\ ~crashed
  /\ \E g \in inflight :
       /\ entries[g.e].executor = "returns"
       /\ inflight' = inflight \ {g}
       /\ executed' = executed \cup {g}
  /\ UNCHANGED <<entries, inShutdown, cancel, mu, run, shut, ticks, crashed,
                 sched>>
  /\ UNCHANGED <<text, u, cron, op, out, scan, timeVars>>

\* the process ends: every call that has not returned and every goroutine
\* is gone
killed(p) ==
  IF p.pc \in {"idle", "returned"} THEN p ELSE [p EXCEPT !.pc = "killed"]

\* Entry.Exec panics: line 668 runs in a goroutine with no deferred recover,
\* so the panic ends the process
ExecPanic ==
  /\ ~crashed
  /\ \E g \in inflight :
       /\ entries[g.e].executor = "panics"
  /\ crashed' = TRUE
  /\ inflight' = {}
  /\ run' = [i \in Runs |-> killed(run[i])]
  /\ shut' = killed(shut)
  /\ UNCHANGED <<entries, inShutdown, cancel, mu, executed, ticks, sched>>
  /\ UNCHANGED <<text, u, cron, op, out, scan, timeVars>>

\* a cancel function that cancels nothing
cancelledNone(rn, c) == rn

\* r.cancel(), when r.cancel is not nil
cancelled(rn, c) == IF c = 0 THEN rn ELSE [rn EXCEPT ![c].done = TRUE]

\* Close line 596, Shutdown line 607
ShutCall ==
  /\ ~crashed
  /\ shut.pc = "idle"
  /\ \E kind \in {"Close", "Shutdown"} :
       shut' = [shut EXCEPT !.pc = "flagged", !.kind = kind]
  /\ inShutdown' = setTrue(inShutdown)
  /\ UNCHANGED <<entries, cancel, mu, run, inflight, executed, ticks,
                 crashed, sched>>
  /\ UNCHANGED <<text, u, cron, op, out, scan, timeVars>>

\* Close, lines 597-602
CloseLock ==
  /\ ~crashed
  /\ shut.pc = "flagged"
  /\ shut.kind = "Close"
  /\ mu = "free"
  /\ run' = cancelled(run, cancel)
  /\ shut' = [shut EXCEPT !.pc = "returned", !.ret = "nil"]
  /\ UNCHANGED <<entries, inShutdown, cancel, mu, inflight, executed, ticks,
                 crashed, sched>>
  /\ UNCHANGED <<text, u, cron, op, out, scan, timeVars>>

\* Shutdown, lines 608-620: with a cancel function the goroutine that waits
\* for wg is started, without one done is closed at once
ShutdownLock ==
  /\ ~crashed
  /\ shut.pc = "flagged"
  /\ shut.kind = "Shutdown"
  /\ mu = "free"
  /\ mu' = "Shutdown"
  /\ run' = cancelled(run, cancel)
  /\ shut' = [shut EXCEPT !.pc = "select", !.waiter = (cancel # 0),
                          !.done = (cancel = 0)]
  /\ UNCHANGED <<entries, inShutdown, cancel, inflight, executed, ticks,
                 crashed, sched>>
  /\ UNCHANGED <<text, u, cron, op, out, scan, timeVars>>

\* Shutdown, lines 615-616: r.wg.Wait() returns when the counter is zero
ShutdownWait ==
  /\ ~crashed
  /\ shut.waiter
  /\ wg = 0
  /\ shut' = [shut EXCEPT !.waiter = FALSE, !.done = TRUE]
  /\ UNCHANGED <<entries, inShutdown, cancel, mu, run, inflight, executed,
                 ticks, crashed, sched>>
  /\ UNCHANGED <<text, u, cron, op, out, scan, timeVars>>

\* Shutdown, lines 624-625
ShutdownDone ==
  /\ ~crashed
  /\ shut.pc = "select"
  /\ shut.done
  /\ shut' = [shut EXCEPT !.pc = "returned", !.ret = "nil"]
  /\ mu' = "free"
  /\ UNCHANGED <<entries, inShutdown, cancel, run, inflight, executed, ticks,
                 crashed, sched>>
  /\ UNCHANGED <<text, u, cron, op, out, scan, timeVars>>

\* Shutdown, lines 622-623
ShutdownDeadline ==
  /\ ~crashed
  /\ shut.pc = "select"
  /\ shut.expired
  /\ shut' = [shut EXCEPT !.pc = "returned", !.ret = "DeadlineExceeded"]
  /\ mu' = "free"
  /\ UNCHANGED <<entries, inShutdown, cancel, run, inflight, executed, ticks,
                 crashed, sched>>
  /\ UNCHANGED <<text, u, cron, op, out, scan, timeVars>>

\* the deadline of the context given to Shutdown elapses
Expire ==
  /\ ~crashed
  /\ shut.kind = "Shutdown"
  /\ shut.pc \in {"flagged", "select"}
  /\ ~shut.expired
  /\ shut' = [shut EXCEPT !.expired = TRUE]
  /\ UNCHANGED <<entries, inShutdown, cancel, mu, run, inflight, executed,
                 ticks, crashed, sched>>
  /\ UNCHANGED <<text, u, cron, op, out, scan, timeVars>>

NextRunner ==
  \/ ScheduleOp
  \/ \E i \in Runs : RunCall(i)
  \/ \E i \in Runs : RunLock(i)
  \/ \E i \in Runs : RunTick(i)
  \/ \E i \in Runs : RunDone(i)
  \/ \E i \in Runs : RunBreak(i)
  \/ ExecReturn
  \/ ExecPanic
  \/ ShutCall
  \/ CloseLock
  \/ ShutdownLock
  \/ ShutdownWait
  \/ ShutdownDone
  \/ ShutdownDeadline
  \/ Expire

SpecRunner == InitRunner /\ [][NextRunner]_vars

\* the Go scheduler lets every goroutine that can run take its next step:
\* the calls of Run, the call of Close or Shutdown, and the goroutines of Do
FairSpecRunner ==
  /\ SpecRunner
  /\ \A i \in Runs : WF_vars(RunLock(i) \/ RunDone(i) \/ RunBreak(i))
  /\ WF_vars(CloseLock \/ ShutdownLock \/ ShutdownWait \/ ShutdownDone
               \/ ShutdownDeadline)
  /\ WF_vars(ExecReturn \/ ExecPanic)

(***************************************************************************)
(* The tick loop of Run and the crontab mutex: Do takes Crontab.mu, starts *)
(* one goroutine for every entry and returns; Schedule takes the same      *)
(* mutex.  Crontab.mu is held exactly while a call of Run is at "Do".      *)
(* Here no call of Close or Shutdown is made and no step of a goroutine in *)
(* Exec is followed: every action dispatched is one that never returns.    *)
(***************************************************************************)
\* ticks followed when Do is taken step by step
MaxDoTicks == MaxTicks + 1

InitDo == InitRunner

\* Crontab.mu is free: no call of Do is between lines 662 and 672
ctMuFree(rn) == \A i \in Runs : rn[i].pc # "Do"

\* Do returns only when no goroutine is left in Exec
doReturnsWhenIdle(gs) == gs = {}

\* lines 664-672: the loop only executes go statements, which do not wait
\* for the function they start, so Do returns whatever the goroutines do
doReturns(gs) == TRUE

\* Schedule, lines 641-655; line 650 waits for Crontab.mu
DoSchedule ==
  /\ ctMuFree(run)
  /\ ScheduleOp

\* Run, lines 571-582, while no shutdown has begun
DoRun(i) ==
  /\ run[i].pc = "idle"
  /\ ~isSet(inShutdown)
  /\ mu = "free"
  /\ cancel' = i
  /\ run' = [run EXCEPT ![i].pc = "select"]
  /\ UNCHANGED <<entries, inShutdown, mu, shut, inflight, executed, ticks,
                 crashed, sched>>
  /\ UNCHANGED <<text, u, cron, op, out, scan, timeVars>>

\* Run, lines 588-589, and Do, lines 662-671: the timer fires, Do takes
\* Crontab.mu and starts the goroutines
DoTick(i) ==
  /\ run[i].pc = "select"
  /\ ~run[i].done
  /\ ticks < MaxDoTicks
  /\ ctMuFree(run)
  /\ ticks' = ticks + 1
  /\ inflight' = inflight \cup Do(entries, i, ticks + 1)
  /\ run' = [run EXCEPT ![i].pc = "Do"]
  /\ UNCHANGED <<entries, inShutdown, cancel, mu, shut, executed, crashed,
                 sched>>
  /\ UNCHANGED <<text, u, cron, op, out, scan, timeVars>>

\* Do, lines 663 and 672: Do returns, the deferred Unlock releases
\* Crontab.mu, and Run is back at its select statement
DoReturn(i) ==
  /\ run[i].pc = "Do"
  /\ doReturns(inflight)
  /\ run' = [run EXCEPT ![i].pc = "select"]
  /\ UNCHANGED <<entries, inShutdown, cancel, mu, shut, inflight, executed,
                 ticks, crashed, sched>>
  /\ UNCHANGED <<text, u, cron, op, out, scan, timeVars>>

NextDo ==
  \/ DoSchedule
  \/ \E i \in Runs : DoRun(i)
  \/ \E i \in Runs : DoTick(i)
  \/ \E i \in Runs : DoReturn(i)

SpecDo == InitDo /\ [][NextDo]_vars

\* the timer of time.After fires after a minute and the Go scheduler lets
\* the goroutine of Run take its next step
FairSpecDo ==
  /\ SpecDo
  /\ WF_vars(\E i \in Runs : DoTick(i))
  /\ WF_vars(\E i \in Runs : DoReturn(i))

(***************************************************************************)
(* NewSchedule and its goroutine, the timers of the runtime, the context    *)
(* and the consumer of the channel C.                                       *)
(*   now         the clock                                                  *)
(*   call        the call of NewSchedule: pc, the arguments p and o, the    *)
(*               instant at of the call                                     *)
(*   sch         the Schedule the call returns (fields p and o)             *)
(*   firstTimer  the timer first, ticker the ticker t                       *)
(*   gor         the goroutine: pc is "select", "send" (blocked in          *)
(*               ch <- v), "drain" (blocked in <-first.C), "done" or        *)
(*               "panicked"                                                 *)
(*   ctxDone     ctx is cancelled                                           *)
(*   triggers    the instants received from C, consumer whether the         *)
(*               consumer still receives                                    *)
(* Timers fire at their instant and a goroutine that can receive from a     *)
(* timer does so before the clock moves on: the latency of the runtime is   *)
(* below one clock unit.  The consumer takes as long as it likes.           *)
(***************************************************************************)
InitSchedule ==
  /\ text = <<>>
  /\ u = NoTime
  /\ cron = [kind |-> "none", c |-> NoCron]
  /\ op = "none"
  /\ out = NoOut
  /\ scan = NoScan
  /\ RunnerIdle
  /\ TimeIdle

\* lines 29-66; time.Now() is read three times within one clock unit
NewScheduleOp ==
  /\ call.pc = "idle"
  /\ \E p \in Periods, o \in Offsets :
       IF NewSchedulePanics(p)
         THEN /\ call' = [pc |-> "panicked", p |-> p, o |-> o, at |-> now]
              /\ UNCHANGED <<sch, firstTimer, gor>>
         ELSE /\ call' = [pc |-> "returned", p |-> p, o |-> o, at |-> now]
              /\ sch' = ScheduleLiteral(p, o)
              /\ firstTimer' = NewTimer(now, firstT(now, p, o) - now)
              /\ gor' = [pc |-> "select", v |-> 0]
  /\ UNCHANGED <<now, ticker, ctxDone, triggers, consumer, runLoop, tickTimes>>
  /\ UNCHANGED <<text, u, cron, op, out, scan, runVars>>

\* a timer is due, or the goroutine can receive from one
Urgent ==
  \/ firstTimer.state = "running" /\ firstTimer.when <= now
  \/ ticker.state = "running" /\ ticker.next <= now
  \/ gor.pc = "select" /\ (firstTimer.C # <<>> \/ ticker.C # <<>>)

\* the clock advances by one unit
Tick ==
  /\ now < MaxNow
  /\ ~Urgent
  /\ now' = now + 1
  /\ UNCHANGED <<call, sch, firstTimer, ticker, gor, ctxDone, triggers,
                 consumer, runLoop, tickTimes>>
  /\ UNCHANGED <<text, u, cron, op, out, scan, runVars>>

\* the runtime fires first: the current instant is put on first.C
TimerFire ==
  /\ firstTimer.state = "running"
  /\ firstTimer.when <= now
  /\ firstTimer' = [firstTimer EXCEPT !.state = "fired", !.C = <<now>>]
  /\ UNCHANGED <<now, call, sch, ticker, gor, ctxDone, triggers, consumer,
                 runLoop, tickTimes>>
  /\ UNCHANGED <<text, u, cron, op, out, scan, runVars>>

\* the runtime fires t: the current instant is put on t.C, or dropped when
\* the channel still holds the previous one
TickerFire ==
  /\ ticker.state = "running"
  /\ ticker.next <= now
  /\ ticker' = [ticker EXCEPT !.next = @ + ticker.d,
                              !.C = IF @ = <<>> THEN <<now>> ELSE @]
  /\ UNCHANGED <<now, call, sch, firstTimer, gor, ctxDone, triggers,
                 consumer, runLoop, tickTimes>>
  /\ UNCHANGED <<text, u, cron, op, out, scan, runVars>>

\* lines 47-50: the first execution is received, the ticker is started and
\* the goroutine goes on to send v
GoFirst ==
  /\ gor.pc = "select"
  /\ firstTimer.C # <<>>
  /\ firstTimer' = [firstTimer EXCEPT !.C = <<>>]
  /\ IF NewTickerPanics(call.p)
       THEN gor' = [gor EXCEPT !.pc = "panicked"] /\ UNCHANGED ticker
       ELSE /\ ticker' = NewTicker(now, call.p)
            /\ gor' = [pc |-> "send", v |-> Head(firstTimer.C)]
  /\ UNCHANGED <<now, call, sch, ctxDone, triggers, consumer, runLoop,
                 tickTimes>>
  /\ UNCHANGED <<text, u, cron, op, out, scan, runVars>>

\* lines 51-52
GoTick ==
  /\ gor.pc = "select"
  /\ ticker.C # <<>>
  /\ ticker' = [ticker EXCEPT !.C = <<>>]
  /\ gor' = [pc |-> "send", v |-> Head(ticker.C)]
  /\ UNCHANGED <<now, call, sch, firstTimer, ctxDone, triggers, consumer,
                 runLoop, tickTimes>>
  /\ UNCHANGED <<text, u, cron, op, out, scan, runVars>>

\* lines 53-61: select takes any of its ready cases, so this one competes
\* with the two above
GoDone ==
  /\ gor.pc = "select"
  /\ ctxDone
  /\ IF ticker.state = "nil"
       THEN /\ firstTimer' =
                 IF Stop(firstTimer) THEN [firstTimer EXCEPT !.state = "stopped"]
                 ELSE firstTimer
            /\ gor' = [gor EXCEPT !.pc = IF Stop(firstTimer) THEN "done" ELSE "drain"]
            /\ UNCHANGED ticker
       ELSE /\ ticker' = [ticker EXCEPT !.state = "stopped"]
            /\ gor' = [gor EXCEPT !.pc = "done"]
            /\ UNCHANGED firstTimer
  /\ UNCHANGED <<now, call, sch, ctxDone, triggers, consumer, runLoop,
                 tickTimes>>
  /\ UNCHANGED <<text, u, cron, op, out, scan, runVars>>

\* line 56: <-first.C
GoDrain ==
  /\ gor.pc = "drain"
  /\ firstTimer.C # <<>>
  /\ firstTimer' = [firstTimer EXCEPT !.C = <<>>]
  /\ gor' = [gor EXCEPT !.pc = "done"]
  /\ UNCHANGED <<now, call, sch, ticker, ctxDone, triggers, consumer,
                 runLoop, tickTimes>>
  /\ UNCHANGED <<text, u, cron, op, out, scan, runVars>>

\* ch <- v of lines 50 and 52 meets a receive of the consumer: ch has no
\* buffer
Deliver ==
  /\ gor.pc = "send"
  /\ consumer = "receiving"
  /\ triggers' = Append(triggers, gor.v)
  /\ gor' = [gor EXCEPT !.pc = "select"]
  /\ UNCHANGED <<now, call, sch, firstTimer, ticker, ctxDone, consumer,
                 runLoop, tickTimes>>
  /\ UNCHANGED <<text, u, cron, op, out, scan, runVars>>

\* the consumer receives no more
ConsumerStop ==
  /\ consumer = "receiving"
  /\ consumer' = "stopped"
  /\ UNCHANGED <<now, call, sch, firstTimer, ticker, gor, ctxDone, triggers,
                 runLoop, tickTimes>>
  /\ UNCHANGED <<text, u, cron, op, out, scan, runVars>>

\* the context given to NewSchedule is cancelled
Cancel ==
  /\ ~ctxDone
  /\ ctxDone' = TRUE
  /\ UNCHANGED <<now, call, sch, firstTimer, ticker, gor, triggers, consumer,
                 runLoop, tickTimes>>
  /\ UNCHANGED <<text, u, cron, op, out, scan, runVars>>

NextSchedule ==
  \/ NewScheduleOp
  \/ Tick
  \/ TimerFire
  \/ TickerFire
  \/ GoFirst
  \/ GoTick
  \/ GoDone
  \/ GoDrain
  \/ Deliver
  \/ ConsumerStop
  \/ Cancel

SpecSchedule == InitSchedule /\ [][NextSchedule]_vars

\* the runtime fires the timers that are due, the scheduler lets the
\* goroutine take its next step, and a consumer that receives takes the
\* value offered to it
FairSpecSchedule ==
  /\ SpecSchedule
  /\ WF_vars(TimerFire \/ TickerFire)
  /\ WF_vars(GoFirst \/ GoTick \/ GoDone \/ GoDrain)
  /\ WF_vars(Deliver)

(***************************************************************************)
(* The timing of the loop of Runner.Run (lines 584-591), with the clock     *)
(* now in seconds.                                                          *)
(*   runLoop    pc is "idle" (Run not called), "select" (waiting for the    *)
(*              timer made by time.After) or "Do" (in r.ct.Do); after is    *)
(*              the instant the timer of this iteration is due, since the   *)
(*              instant Do was called, timers the deadlines of the timers   *)
(*              made by time.After that have not been received from         *)
(*   ctxDone    the context of Run is cancelled                             *)
(*   tickTimes  the instants handed to Do                                   *)
(* The timer fires at its instant; a call of Do takes up to MaxDispatch     *)
(* seconds.  The clock is not followed beyond the cancellation.             *)
(***************************************************************************)
InitMinute ==
  /\ text = <<>>
  /\ u = NoTime
  /\ cron = [kind |-> "none", c |-> NoCron]
  /\ op = "none"
  /\ out = NoOut
  /\ scan = NoScan
  /\ RunnerIdle
  /\ now \in 0..(timeMinute - 1)
  /\ call = NoCall
  /\ sch = ScheduleLiteral(0, 0)
  /\ firstTimer = NoTimer
  /\ ticker = NilTicker
  /\ gor = NoGoroutine
  /\ ctxDone = FALSE
  /\ triggers = <<>>
  /\ consumer = "receiving"
  /\ runLoop = NoLoop
  /\ tickTimes = <<>>

\* Run reaches its loop and line 588 makes the first timer
LoopStart ==
  /\ runLoop.pc = "idle"
  /\ runLoop' = [pc |-> "select", after |-> now + timeMinute, since |-> now,
                 timers |-> <<now + timeMinute>>]
  /\ UNCHANGED <<now, call, sch, firstTimer, ticker, gor, ctxDone, triggers,
                 consumer, tickTimes>>
  /\ UNCHANGED <<text, u, cron, op, out, scan, runVars>>

\* lines 588-589: the timer fires and its instant is handed to Do
LoopAfter ==
  /\ runLoop.pc = "select"
  /\ runLoop.after <= now
  /\ Len(tickTimes) < MaxMinutes
  /\ tickTimes' = Append(tickTimes, now)
  /\ runLoop' = [runLoop EXCEPT !.pc = "Do", !.since = now,
                               !.timers = liveTimers(@, now)]
  /\ UNCHANGED <<now, call, sch, firstTimer, ticker, gor, ctxDone, triggers,
                 consumer>>
  /\ UNCHANGED <<text, u, cron, op, out, scan, runVars>>

\* Do returns and the next iteration makes a new timer, one minute from the
\* instant it is made at
LoopDo ==
  /\ runLoop.pc = "Do"
  /\ runLoop' = [runLoop EXCEPT !.pc = "select", !.after = now + timeMinute,
                               !.timers = Append(@, now + timeMinute)]
  /\ UNCHANGED <<now, call, sch, firstTimer, ticker, gor, ctxDone, triggers,
                 consumer, tickTimes>>
  /\ UNCHANGED <<text, u, cron, op, out, scan, runVars>>

\* Close or Shutdown calls r.cancel (lines 599-601, 611-612)
LoopCancel ==
  /\ runLoop.pc # "idle"
  /\ ~ctxDone
  /\ ctxDone' = TRUE
  /\ UNCHANGED <<now, call, sch, firstTimer, ticker, gor, triggers, consumer,
                 runLoop, tickTimes>>
  /\ UNCHANGED <<text, u, cron, op, out, scan, runVars>>

\* lines 586-587, then 584-588 again: the case of ctx.Done() is taken, break
\* leaves the select statement only, and the next iteration evaluates
\* time.After(time.Minute) anew, which makes one more timer; the earlier
\* ones are neither stopped nor received from
LoopBreak ==
  /\ runLoop.pc = "select"
  /\ ctxDone
  /\ Len(runLoop.timers) < MaxTimers
  /\ runLoop' = [runLoop EXCEPT !.after = now + timeMinute,
                               !.timers = Append(@, now + timeMinute)]
  /\ UNCHANGED <<now, call, sch, firstTimer, ticker, gor, ctxDone, triggers,
                 consumer, tickTimes>>
  /\ UNCHANGED <<text, u, cron, op, out, scan, runVars>>

\* one second passes
SecondPasses ==
  /\ runLoop.pc # "idle"
  /\ ~ctxDone
  /\ now < (MaxMinutes + 2) * timeMinute
  /\ runLoop.pc = "select" => now < runLoop.after
  /\ runLoop.pc = "Do" => now - runLoop.since < MaxDispatch
  /\ now' = now + 1
  /\ UNCHANGED <<call, sch, firstTimer, ticker, gor, ctxDone, triggers,
                 consumer, runLoop, tickTimes>>
  /\ UNCHANGED <<text, u, cron, op, out, scan, runVars>>

NextMinute ==
  LoopStart \/ LoopAfter \/ LoopDo \/ LoopCancel \/ LoopBreak \/ SecondPasses

SpecMinute == InitMinute /\ [][NextMinute]_vars

(***************************************************************************)
(* Properties                                                              *)
(***************************************************************************)
FiveField == Len(text) > 0 /\ text[1] # "@"

MinuteAligned(t) == Second(t) = 0 /\ Nanosecond(t) = 0

\* the minute that holds t
MinuteOf(t) == [sec |-> t.sec - Second(t), nsec |-> 0]

\* what the masks of c say about t: minute, hour and month (position
\* month-1) bits set, and not both star flags cleared with both day bits unset
MasksMatch(c, t) ==
  /\ (Minute(t) - firstMinute) \in c.minutes
  /\ (Hour(t) - firstHour) \in c.hours
  /\ (Month(t) - firstMonth) \in c.months
  /\ ~ /\ dayStar \notin c.flags
       /\ weekdayStar \notin c.flags
       /\ (Day(t) - firstDay) \notin c.days
       /\ (Weekday(t) - firstWeekday) \notin c.weekdays

\* C1: for every parsed cron and every instant, ScheduledFor is true exactly
\* when the minute, hour and month bits of the instant are set and it is not
\* the case that both star flags are cleared while the day-of-month bit and
\* the weekday bit are both unset.
C1_ScheduledForIffMasks ==
  op = "ScheduledFor" => (out.b <=> MasksMatch(cron.c, u))

\* C2: with exactly one day field `*` only the other one constrains the day:
\* `* * * * 1` is scheduled on Mondays and on no other weekday, `* * 1 * *`
\* on day-of-month 1 and on no other day.
C2_OneDayFieldConstrains ==
  op = "ScheduledFor" =>
    /\ text = OnMonday => (out.b <=> Weekday(u) = 1)
    /\ text = OnDayOne => (out.b <=> Day(u) = 1)

\* C3: for a cron parsed from a five-field expression, After(c, t) is
\* strictly later than t and is itself scheduled.
C3_AfterLaterAndScheduled ==
  (op = "After" /\ FiveField /\ out.done) =>
    /\ TimeLess(u, out.t)
    /\ ScheduledFor(cron.c, out.t)

\* C4: for a cron parsed from a five-field expression, Before(c, t) is
\* strictly earlier than t and is itself scheduled, also when a field has no
\* scheduled value below the current one and the search wraps.
C4_BeforeEarlierAndScheduled ==
  (op = "Before" /\ FiveField /\ out.done) =>
    /\ TimeLess(out.t, u)
    /\ ScheduledFor(cron.c, out.t)

\* C5: After and Before skip no scheduled instant: no minute-aligned instant
\* strictly between t and After(c, t), or strictly between Before(c, t) and
\* t, is scheduled (inspected for the MaxProbe minutes next to t).
C5_NoScheduledInstantSkipped ==
  /\ (op = "After" /\ out.done) =>
       \A k \in 1..MaxProbe :
         LET x == AddSeconds(MinuteOf(u), 60 * k)
         IN TimeLess(x, out.t) => ~ScheduledFor(cron.c, x)
  /\ (op = "Before" /\ out.done) =>
       \A k \in 0..MaxProbe :
         LET x == AddSeconds(MinuteOf(u), -60 * k)
         IN (TimeLess(x, u) /\ TimeLess(out.t, x)) => ~ScheduledFor(cron.c, x)

\* C6: round trip: for a minute-aligned scheduled instant t,
\* After(c, Before(c, t)) = t and Before(c, After(c, t)) = t.
C6_RoundTrip ==
  (MinuteAligned(u) /\ cron.kind = "ok" /\ ScheduledFor(cron.c, u)) =>
    /\ (op = "Before" /\ out.done) => After(cron.c, out.t).t = u
    /\ (op = "After" /\ out.done) => Before(cron.c, out.t).t = u

\* C7: with both day fields explicit, After and Before return an instant at
\* a scheduled minute, hour and month whose day matches the day-of-month mask
\* or the weekday mask, the nearest such one: `0,30 0,12 23 JAN,JUN MON`
\* after 1990-01-15 12:30 gives Monday 1990-01-22 00:00 and
\* `0,30 0,12 21 JAN,JUN MON` gives 1990-01-21 00:00.
C7_EitherDayFieldMatches ==
  /\ (op \in {"After", "Before"} /\ FiveField /\ cron.c.flags = {} /\ out.done)
       => MasksMatch(cron.c, out.t)
  /\ (op = "After" /\ u = Date(1990, 1, 15, 12, 30, 0, 0)) =>
       /\ text = Day23OrMon => out.t = Date(1990, 1, 22, 0, 0, 0, 0)
       /\ text = Day21OrMon => out.t = Date(1990, 1, 21, 0, 0, 0, 0)

\* the five-field expansion the documentation gives for a shorthand
Expansion(s) ==
  IF s = Yearly \/ s = Annually THEN YearlyFields
  ELSE IF s = Monthly THEN MonthlyFields
  ELSE IF s = Weekly THEN WeeklyFields
  ELSE IF s = Daily \/ s = Midnight THEN DailyFields
  ELSE HourlyFields

\* C8: each predefined shorthand yields the same masks and flags as its
\* five-field expansion.
C8_ShorthandEqualsExpansion ==
  (text \in Shorthands /\ cron.kind # "none") => cron = Parse(Expansion(text))

\* the instants the documentation of Parse names for a shorthand
Documented(s, t) ==
  /\ Minute(t) = 0
  /\ s # Hourly => Hour(t) = 0
  /\ s = Weekly => Weekday(t) = 0
  /\ s = Monthly => Day(t) = 1
  /\ (s = Yearly \/ s = Annually) => (Day(t) = 1 /\ Month(t) = 1)

\* C9: a cron parsed from a shorthand is scheduled exactly at the instants
\* its documentation names (@hourly at minute 0 of every hour, @daily and
\* @midnight at 00:00, @weekly at 00:00 on Sundays, @monthly at 00:00 on day
\* 1, @yearly and @annually at 00:00 on 1 January).
C9_ShorthandScheduledAsDocumented ==
  (op = "ScheduledFor" /\ text \in Shorthands) =>
    (out.b <=> Documented(text, u))

\* C10: Parse is total: for every text it returns a cron or an error and
\* never panics.
C10_ParseNeverPanics == cron.kind # "panic"

\* expressions with a number below the low bound or above the high bound of
\* its field
OutOfBounds ==
  {BadMinute, HourTooBig, DayZero, DayZeroRange, MonthZeroRange, WeekdayEight}

\* C11: Parse returns an error, and no cron, for every expression in which a
\* number of a field (a single value, the start or the end of a range) is
\* below the field's low bound or above its high bound; `* * 0-5 * *` is
\* rejected just like `* * 0 * *`.
C11_OutOfBoundsRejected ==
  (text \in OutOfBounds /\ cron.kind # "none") => cron.kind = "error"

\* expressions with a letter token that is no name of the field's table
UnknownNames == {BadDay, BadMonth, LongMonth, BadWeekday, BadMinuteName}

\* C12: a token made of letters is accepted exactly when it equals, ignoring
\* case, a three-letter name of the field's table, and then denotes
\* Jan..Dec = 1..12 or Sun..Sat = 0..6; any other letter token, in any field,
\* the weekday field included, makes Parse return an error.
C12_NamesAcceptedIffInTable ==
  cron.kind # "none" =>
    /\ text \in UnknownNames => cron.kind = "error"
    /\ text = InJune => (cron.kind = "ok" /\ cron.c.months = {6 - firstMonth})
    /\ text \in {OnSunday, OnSundayLower} =>
         (cron.kind = "ok" /\ cron.c.weekdays = {0, 7})
    /\ text = TwoMonthsMon =>
         /\ cron.kind = "ok"
         /\ cron.c.months = {1 - firstMonth, 6 - firstMonth}
         /\ cron.c.weekdays = {1}

\* expressions whose weekday field includes 0, 7 or SUN
SundayExprs == {WeeklyFields, OnSunday, OnSundayLower, OnSeven}

\* C13: in every cron returned by Parse bit 0 of the weekday mask is set
\* exactly when bit 7 is set, and a weekday field that includes 0, 7 or SUN
\* yields both bits.
C13_SundayNormalized ==
  cron.kind = "ok" =>
    /\ (0 \in cron.c.weekdays) <=> (7 \in cron.c.weekdays)
    /\ text \in SundayExprs => {0, 7} \subseteq cron.c.weekdays

\* a cron parsed from `* * * * 7` is held: the field names bit 7 only
C13_Witness == cron.kind = "ok" /\ text = OnSeven

\* C15: for `* * 29 2 *` After and Before return an instant whose calendar
\* date is a real 29 February, never a date made by normalising a day that
\* does not exist.
C15_LeapDayIsFeb29 ==
  (text = LeapDay /\ op \in {"After", "Before"} /\ out.done) =>
    (Month(out.t) = 2 /\ Day(out.t) = 29)

\* the values one range stands for: from, from+step, from+2*step, ... up to to
RangeValues(r) ==
  { v \in r.from..r.to : (v - r.from) % (IF r.step = 0 THEN 1 ELSE r.step) = 0 }

\* the union of the values of the ranges of a list
ListValues(rs) == UNION { RangeValues(rs[i]) : i \in 1..Len(rs) }

C16_LateRunIsRefused ==
  \A i \in Runs :
    run[i].late =>
      /\ run[i].pc = "returned"
      /\ run[i].ret = ErrCrontabClosed
      /\ \A g \in inflight \cup executed : g.by # i

\* a call of Run made after Close or Shutdown returned has returned
C16_Witness == \E i \in Runs : run[i].late /\ run[i].pc = "returned"

\* C17: when Close or Shutdown is called while Run executes its tick loop
\* (Run is in the loop before the call is made), Run eventually returns to
\* its caller (unless the process has ended).
C17_RunReturnsAfterShutdown ==
  \A i \in Runs :
    []((run[i].pc \in {"select", "break"} /\ shut.pc = "idle")
         => [](shut.pc # "idle" => <>(run[i].pc = "returned" \/ crashed)))

\* the step on which Shutdown returns
ShutdownReturns ==
  shut.pc # "returned" /\ shut'.pc = "returned" /\ shut'.kind = "Shutdown"

\* C18: Shutdown(ctx) returns nil only when every action the runner
\* dispatched has finished, and returns the deadline error of ctx when an
\* action is still executing after the deadline has elapsed.
C18_ShutdownWaitsForActions ==
  [][ShutdownReturns =>
       /\ shut'.ret = "nil" => inflight = {}
       /\ (shut.expired /\ inflight # {}) => shut'.ret = "DeadlineExceeded"]_vars

\* C19: when a dispatched action panics the tick loop keeps running and the
\* actions of the other entries are still executed: no step takes a call of
\* Run out of its loop, and no goroutine of an entry whose Exec returns
\* disappears before its Exec has returned.
C19_ActionFailuresIsolated ==
  [][/\ \A i \in Runs :
          run[i].pc \in {"select", "break"} => run'[i].pc \in {"select", "break"}
     /\ \A g \in inflight :
          entries[g.e].executor = "returns" => g \in inflight' \cup executed']_vars

\* C20: Schedule either panics and leaves the entries as they are, or appends
\* exactly one entry (with a parsed cron and an executor) after the existing
\* ones; no other operation changes the entries.
C20_ScheduleAppendsOrPanics ==
  [][/\ ScheduleOp =>
          \/ sched' = "panic" /\ entries' = entries
          \/ /\ sched' = "ok"
             /\ Len(entries') = Len(entries) + 1
             /\ SubSeq(entries', 1, Len(entries)) = entries
             /\ entries'[Len(entries')].executor # "nil"
     /\ ~ScheduleOp => entries' = entries]_vars

\* a call of Schedule has panicked with entries registered
C20_Witness == Len(entries) = MaxEntries - 1 /\ Len(entries) > 0 /\ sched = "panic"

\* C28: After and Before terminate for every cron that Parse returns: the
\* loop of lines 255-270 (and of lines 310-325) has left through its break
\* when the call is observed, the predefined definitions included.
C28_AfterAndBeforeTerminate == op \in {"After", "Before"} => out.done

\* C29: once the call of Close or Shutdown has returned, the runner
\* dispatches no further tick, whatever call of Run was in progress when the
\* runner was shut down.
C29_NoTickAfterShutdownReturned ==
  [][shut.pc = "returned" => ticks' = ticks]_vars

\* the goroutines that call Exec for entry j at tick k
Dispatched(gs, j, k) == { g \in gs : g.e = j /\ g.tick = k }

\* C21: a tick handed to Do starts, for every entry registered before it,
\* exactly one execution when the entry's cron is scheduled for the tick
\* instant and none otherwise, each with the tick and the context of the
\* calling Run; nothing else starts an execution, and an execution that has
\* returned came from a dispatch.
C21_DispatchedOnceIffScheduled ==
  [][/\ \A i \in Runs :
          RunTick(i) =>
            /\ \A j \in 1..Len(entries) :
                 Cardinality(Dispatched(inflight' \ inflight, j, ticks')) =
                   IF ScheduledFor(entries[j].cron, TickTime(ticks')) THEN 1 ELSE 0
            /\ \A g \in inflight' \ inflight :
                 g.tick = ticks' /\ g.by = i /\ g.e \in 1..Len(entries)
     /\ (\A i \in Runs : ~RunTick(i)) => inflight' \subseteq inflight
     /\ executed' \subseteq executed \cup inflight
     /\ inflight' \cap executed' = {}]_vars

\* after a tick, an entry scheduled for it has been executed and an entry
\* not scheduled for it has not been dispatched
C21_Witness ==
  /\ ticks = 1
  /\ \E j, n \in 1..Len(entries) :
       /\ ScheduledFor(entries[j].cron, TickTime(1))
       /\ Dispatched(executed, j, 1) # {}
       /\ ~ScheduledFor(entries[n].cron, TickTime(1))
       /\ Dispatched(inflight \cup executed, n, 1) = {}

\* C22: the firings of a schedule lie on the progression of its period and
\* offset: every instant f received from C satisfies (f - o) mod p = 0, and
\* each one is a whole number of periods after the one before it (one
\* period for each intended instant, delivered or dropped).
C22_FiringsOnTheProgression ==
  /\ \A n \in 1..Len(triggers) : (triggers[n] - call.o) % call.p = 0
  /\ \A n \in 1..(Len(triggers) - 1) :
       \E k \in 1..MaxNow : triggers[n + 1] = triggers[n] + k * call.p

\* C23: once the context is cancelled no value is sent on C any more.
C23_NoFiringAfterCancel == [][ctxDone => triggers' = triggers]_vars

\* C24: after the context is cancelled the goroutine of the schedule
\* eventually terminates, with neither its timer nor its ticker running.
C24_CancelReleasesResources ==
  (ctxDone /\ call.pc = "returned")
    ~> (/\ gor.pc = "done"
        /\ firstTimer.state # "running"
        /\ ticker.state # "running")

\* C25: the Schedule returned by NewSchedule(ctx, p, o) reports p as its
\* period and o as its offset.
C25_PeriodAndOffsetReported ==
  call.pc = "returned" => Period(sch) = call.p /\ Offset(sch) = call.o

\* C26: NewSchedule panics exactly when the period is zero or negative, it
\* has then made no timer, ticker or goroutine, and with a positive period
\* neither the call nor its goroutine panics.
C26_PanicsIffNotPositive ==
  /\ call.pc # "idle" => ((call.pc = "panicked") <=> (call.p <= 0))
  /\ call.pc = "panicked" =>
       /\ firstTimer = NoTimer
       /\ ticker = NilTicker
       /\ gor = NoGoroutine
       /\ triggers = <<>>
  /\ gor.pc # "panicked"

\* NewSchedule has been called with the period zero, some time after the
\* schedule's zero instant
C26_Witness == call.pc = "panicked" /\ call.p = 0 /\ call.at > 0

\* the instants truncate(at, p) + (o mod p) + k*p that lie strictly after
\* the start of the schedule and before its first firing
SkippedFirings ==
  { x \in { Truncate(call.at, call.p) + (call.o % call.p) + k * call.p :
              k \in 0..(MaxNow + MaxOffset) } :
      call.at < x /\ x < triggers[1] }

\* C27: with an offset of at least one period the schedule skips exactly
\* floor(o / p) of its aligned instants before the first firing, whatever
\* the instant it is started at.
C27_OffsetSkipsFirings ==
  (Len(triggers) > 0 /\ call.o >= call.p) =>
    Cardinality(SkippedFirings) = call.o \div call.p

\* C30: consecutive ticks of the runner fall in consecutive calendar
\* minutes, so that no minute is skipped and none is ticked twice.
C30_OneTickEveryMinute ==
  \A n \in 1..(Len(tickTimes) - 1) :
    tickTimes[n + 1] \div timeMinute = (tickTimes[n] \div timeMinute) + 1

\* the four calls of diffAfter that After makes for the cron and the instant
\* of the state: current, low, high and mask for minutes, hours, days and
\* months
DiffAfterCalls ==
  { <<Minute(u), firstMinute, lastMinute, cron.c.minutes>>,
    <<Hour(u), firstHour, lastHour, cron.c.hours>>,
    <<Day(u), firstDay, lastDay, cron.c.days>>,
    <<Month(u), firstMonth, lastMonth, cron.c.months>> }

\* the bits of a mask above position pos and up to position top
BitsAbove(mask, pos, top) == { k \in mask : pos < k /\ k <= top }

\* the result C40 states for a call of diffAfter
NextBitResult(current, low, high, mask) ==
  LET pos == current - low
  IN IF pos \in mask THEN [diff |-> 0, overflow |-> FALSE]
     ELSE IF BitsAbove(mask, pos, high - low) # {}
       THEN [diff |-> Min(BitsAbove(mask, pos, high - low)) - pos,
             overflow |-> FALSE]
       ELSE [diff |-> Min(mask) - pos, overflow |-> TRUE]

\* C40: diffAfter(current, low, high, mask) with pos = current - low returns
\* (0, false) when bit pos is set; otherwise (k - pos, false) for the lowest
\* set bit k above pos, the field's highest position high - low included;
\* and (lowest set bit - pos, true) only when no bit above pos is set.
C40_DiffAfterFindsNextBit ==
  cron.kind = "ok" =>
    \A a \in DiffAfterCalls :
      a[4] # {} =>
        diffAfter(a[1], a[2], a[3], a[4]) = NextBitResult(a[1], a[2], a[3], a[4])

\* C34: the first firing of a schedule is strictly later than the instant
\* at which NewSchedule was called, also when that instant is aligned with
\* the period, so that truncate(now, p) + o equals now.
C34_FirstFiringAfterCall ==
  Len(triggers) > 0 => triggers[1] > call.at

\* expressions with a range or a step that is not well formed: the end below
\* the start, no number after the dash, no number before the dash, a step
\* of zero, a step above the field's high bound, a step that is no number
MalformedRanges ==
  {BadRange, NoRangeEnd, WeekdayNoEnd, NoRangeStart, WeekdayNoStart,
   StepZero, StepTooBig, StepNoNumber}

\* expressions with a step
StepTexts ==
  {EveryQuarter, DayStep, WeekdayStep, StepZero, StepTooBig, StepNoNumber}

\* C35: Parse returns an error, and no cron, for a range whose end is below
\* its start, for a dash without a right or without a left operand, for a
\* step of zero and for a step above the field's high bound; no expression
\* with a step makes Parse panic in cronRange.Bits.
C35_MalformedRangesRejected ==
  cron.kind # "none" =>
    /\ text \in MalformedRanges => cron.kind = "error"
    /\ text \in StepTexts => cron.kind # "panic"

\* expressions in which a number, a range or `*` is followed by a character
\* that may not follow it
InvalidTerminators == {SingleWithStep, DoubleDash, StarLetter, NumberLetter}

\* C36: Parse returns an error when a single number is followed by `/step`,
\* when a range is followed by a second dash, and when a number, a range or
\* `*` is followed by any other character that is not allowed there (`*x`,
\* `5x`).
C36_InvalidTerminatorRejected ==
  (text \in InvalidTerminators /\ cron.kind # "none") => cron.kind = "error"

\* the positions of an expression at which a whitespace-separated field
\* begins
FieldStarts(x) ==
  { i \in 1..Len(x) : ~IsSpace(x[i]) /\ (i = 1 \/ IsSpace(x[i - 1])) }

\* the number of whitespace-separated fields of an expression
FieldCount(x) == Cardinality(FieldStarts(x))

\* the position at which field k of an expression begins
FieldStart(x, k) ==
  CHOOSE i \in FieldStarts(x) :
    Cardinality({ j \in FieldStarts(x) : j <= i }) = k

\* the position at which field k of an expression ends
FieldEnd(x, k) ==
  Max({ j \in FieldStart(x, k)..Len(x) :
          \A i \in FieldStart(x, k)..j : ~IsSpace(x[i]) })

\* field k of an expression
FieldOf(x, k) == SubSeq(x, FieldStart(x, k), FieldEnd(x, k))

\* a field that is `*` or `*/step`
IsStarField(f) ==
  \/ f = <<"*">>
  \/ /\ Len(f) >= 3
     /\ f[1] = "*"
     /\ f[2] = "/"
     /\ \A i \in 3..Len(f) : IsDigit(f[i])

\* C37: in every cron returned by Parse from a five-field expression
\* DAY_STAR is set exactly when the day-of-month field is `*` or `*/step`
\* and WEEKDAY_STAR exactly when the weekday field is `*` or `*/step`; a
\* list that begins with `*` (`*,5`) leaves the flag cleared.
C37_StarFlagsIffStarField ==
  (cron.kind = "ok" /\ FieldCount(text) = 5) =>
    /\ hasFlag(cron.c, dayStar) <=> IsStarField(FieldOf(text, 3))
    /\ hasFlag(cron.c, weekdayStar) <=> IsStarField(FieldOf(text, 5))

\* C38: in every cron returned by Parse from a five-field expression each
\* of the five masks has at least one bit set, and every set bit lies in the
\* field's domain: minutes 0-59, hours 0-23, days 0-30, months 0-11,
\* weekdays 0-7.
C38_MasksNonEmptyAndInDomain ==
  (cron.kind = "ok" /\ FieldCount(text) = 5) =>
    /\ cron.c.minutes # {} /\ cron.c.minutes \subseteq 0..59
    /\ cron.c.hours # {} /\ cron.c.hours \subseteq 0..23
    /\ cron.c.days # {} /\ cron.c.days \subseteq 0..30
    /\ cron.c.months # {} /\ cron.c.months \subseteq 0..11
    /\ cron.c.weekdays # {} /\ cron.c.weekdays \subseteq 0..7

\* C39: Parse accepts only expressions of exactly five whitespace-separated
\* fields: with fewer than five fields, and with further text after the
\* fifth field, Parse returns an error.
C39_ExactlyFiveFields ==
  (/\ cron.kind # "none"
   /\ Len(text) > 0
   /\ text[1] # "@"
   /\ FieldCount(text) # 5) => cron.kind = "error"

\* the step of Close from its lock to its return
CloseReturns ==
  shut.kind = "Close" /\ shut.pc = "flagged" /\ shut'.pc = "returned"

\* C32: Close cancels the context that the running call of Run gave to the
\* actions it dispatched, so every action in flight observes the
\* cancellation, and Close returns, with a nil error, without waiting for an
\* action in flight: none of them has ended when it returns.
C32_CloseCancelsAndReturns ==
  [][CloseReturns =>
       /\ \A g \in inflight : g.by = cancel => run'[g.by].done
       /\ inflight' = inflight
       /\ shut'.ret = "nil"]_vars

\* Close has returned while an action is in flight, whose context is
\* cancelled
C32_Witness ==
  /\ shut.kind = "Close"
  /\ shut.pc = "returned"
  /\ inflight # {}
  /\ \A g \in inflight : run[g.by].done

\* C33: actions do not block the tick loop: although no action in flight
\* ever returns, once a call of Run waits for the timer every following
\* tick is dispatched and every call of Do has returned and released the
\* crontab mutex, so that Schedule can register entries.
C33_ActionsDoNotBlockTicks ==
  (\E i \in Runs : run[i].pc = "select") ~>
    (ticks = MaxDoTicks /\ ctMuFree(run))

\* the last tick has been dispatched while an action of the first tick is
\* in flight, and an entry registered after the first tick, with that
\* action in flight, was dispatched at a later tick
C33_Witness ==
  /\ ticks = MaxDoTicks
  /\ ctMuFree(run)
  /\ \E g \in inflight :
       /\ g.tick = 1
       /\ \E h \in inflight :
            /\ h.tick > 1
            /\ \A f \in inflight : f.tick = 1 => f.e # h.e

\* C31: at every moment, before and after the cancellation, the runner has
\* at most one minute timer that was made and has not fired.
C31_AtMostOneLiveTimer == Len(liveTimers(runLoop.timers, now)) <= 1

====
